---- MODULE Spec2Model ----
(***************************************************************************)
(* A model of the miniagent orchestration engine of TangJia025/mylib:      *)
(* the agent loops of v0_bash.py .. v4_skills.py, the tool dispatchers,    *)
(* the TodoManager of utils.py and the response normalizer                 *)
(* LLMChatAdapter.chat_with_tools of llm_factory.py.                       *)
(***************************************************************************)
EXTENDS Integers, Sequences, FiniteSets, TLC

(***************************************************************************)
(* Bounds of the model.                                                    *)
(***************************************************************************)
\* longest list of arbitrary items at the head of a TodoWrite request
MaxPrefix == 2
\* largest step budget max_steps a session is configured with
MaxSteps == 2
\* how many lines main() reads from the user in the sessions of SpecRepl
MaxInputs == 2
\* how many subagent loops may be nested before the interpreter's recursion
\* limit stops the next one with a RecursionError
MaxDepth == 2
\* the exchanges of a session before the run looked at
MaxHistory == 10

(***************************************************************************)
(* Python string helpers, computed on TLA+ strings.                        *)
(***************************************************************************)
\* str.strip() removes leading and trailing whitespace
IsSpace(c) == c \in {" ", "\t", "\n"}

RECURSIVE lstrip(_)
lstrip(s) ==
    IF Len(s) > 0 /\ IsSpace(SubSeq(s, 1, 1))
    THEN lstrip(Tail(s))
    ELSE s

RECURSIVE rstrip(_)
rstrip(s) ==
    IF Len(s) > 0 /\ IsSpace(SubSeq(s, Len(s), Len(s)))
    THEN rstrip(SubSeq(s, 1, Len(s) - 1))
    ELSE s

strip(s) == rstrip(lstrip(s))

\* str.lower() on one character
lowerChar(c) ==
    LET UpperLetters == "ABCDEFGHIJKLMNOPQRSTUVWXYZ"
        LowerLetters == "abcdefghijklmnopqrstuvwxyz"
    IN  IF \E i \in 1..Len(UpperLetters) : SubSeq(UpperLetters, i, i) = c
        THEN LET i == CHOOSE j \in 1..Len(UpperLetters) : SubSeq(UpperLetters, j, j) = c
             IN  SubSeq(LowerLetters, i, i)
        ELSE c

RECURSIVE lower(_)
lower(s) ==
    IF Len(s) = 0 THEN s
    ELSE lowerChar(SubSeq(s, 1, 1)) \o lower(Tail(s))

\* Python's `sub in s` on strings
Contains(s, sub) ==
    \E i \in 1..(Len(s) - Len(sub) + 1) : SubSeq(s, i, i + Len(sub) - 1) = sub

\* "\n".join(lines)
RECURSIVE join(_)
join(lines) ==
    IF Len(lines) = 0 THEN ""
    ELSE IF Len(lines) = 1 THEN lines[1]
    ELSE lines[1] \o "\n" \o join(Tail(lines))

(***************************************************************************)
(* TodoManager (utils.py).  A submitted item is a dict: `has` is the set   *)
(* of keys it carries, the other fields are the values under those keys.   *)
(***************************************************************************)
MaxTodos == 20

Statuses == {"pending", "in_progress", "completed"}

\* item.get(key, default)
item_get(item, key, default) == IF key \in item.has THEN item[key] ELSE default

Ok(items, out) == [raised |-> FALSE, text |-> out, items |-> items]
Raise(items, msg) == [raised |-> TRUE, text |-> msg, items |-> items]

\* TodoManager.render
RECURSIVE render_lines(_)
render_lines(items) ==
    IF Len(items) = 0 THEN <<>>
    ELSE LET item == items[1]
             line == IF item.status = "completed"
                     THEN "[x] " \o item.content
                     ELSE IF item.status = "in_progress"
                     THEN "[>] " \o item.content \o " <- " \o item.activeForm
                     ELSE "[ ] " \o item.content
         IN  <<line>> \o render_lines(Tail(items))

completed_count(items) ==
    Cardinality({i \in 1..Len(items) : items[i].status = "completed"})

\* render without its summary line (a variant of the code, to see that the
\* properties of the rendered text rest on it)
render_without_summary(items) ==
    IF Len(items) = 0 THEN "No todos." ELSE join(render_lines(items))

render(items) ==
    IF Len(items) = 0 THEN "No todos."
    ELSE join(render_lines(items) \o
              <<"\n(" \o ToString(completed_count(items)) \o "/"
                      \o ToString(Len(items)) \o " completed)">>)

\* update without its constraints on the whole list (a variant of the code,
\* to see that the properties of the stored list rest on them)
enforce_without_limits(stored, validated, in_progress_count) ==
    Ok(validated, render(validated))

\* the end of TodoManager.update: the constraints on the whole list, then
\* the assignment to self.items and the rendering
enforce(stored, validated, in_progress_count) ==
    IF Len(validated) > MaxTodos
    THEN Raise(stored, "Max 20 todos allowed")
    ELSE IF in_progress_count > 1
    THEN Raise(stored, "Only one task can be in_progress at a time")
    ELSE Ok(validated, render(validated))

\* the validation loop of TodoManager.update over items[i..]; `stored` is
\* self.items, which the loop never touches
RECURSIVE update_loop(_, _, _, _, _)
update_loop(stored, items, i, validated, in_progress_count) ==
    IF i > Len(items)
    THEN enforce(stored, validated, in_progress_count)
    ELSE LET item == items[i]
             content == strip(item_get(item, "content", ""))
             status == lower(item_get(item, "status", "pending"))
             active_form == strip(item_get(item, "activeForm", ""))
             idx == ToString(i - 1)
         IN  IF content = ""
             THEN Raise(stored, "Item " \o idx \o ": content required")
             ELSE IF status \notin Statuses
             THEN Raise(stored, "Item " \o idx \o ": invalid status '" \o status \o "'")
             ELSE IF active_form = ""
             THEN Raise(stored, "Item " \o idx \o ": activeForm required")
             ELSE update_loop(stored, items, i + 1,
                      Append(validated, [content |-> content, status |-> status,
                                         activeForm |-> active_form]),
                      IF status = "in_progress" THEN in_progress_count + 1
                                                ELSE in_progress_count)

\* update emptying self.items before it validates (a variant of the code,
\* to see that a failed call is told apart from one that clears the list)
update_clearing_first(stored, items) == update_loop(<<>>, items, 1, <<>>, 0)

\* update adding the validated items to the list held (a variant of the
\* code, to see that the replacement of the whole list rests on update)
update_extending(stored, items) == update_loop(stored, items, 1, stored, 0)

\* TodoManager.update(items) on a manager holding `stored`: the result
\* (rendered text, or the ValueError raised) and the list held afterwards
update(stored, items) == update_loop(stored, items, 1, <<>>, 0)

(***************************************************************************)
(* Content blocks and the response normalizer (llm_factory.py).            *)
(*                                                                         *)
(* A tool call's input (`args`) is what json.loads made of the call's      *)
(* `arguments`: a dict (kind "dict": `keys` are its keys, the other fields *)
(* the values under them) or, when the arguments did not parse, the raw    *)
(* string itself (kind "str", the string in `raw`).                        *)
(***************************************************************************)
EmptyInput ==
    [kind |-> "dict", raw |-> "", keys |-> {}, command |-> "", path |-> "",
     limit |-> 0, content |-> "", old_text |-> "", new_text |-> "",
     items |-> <<>>, description |-> "", prompt |-> "", agent_type |-> "",
     skill |-> ""]

RawInput(s) == [EmptyInput EXCEPT !.kind = "str", !.raw = s]

TextBlock(t) ==
    [type |-> "text", text |-> t, id |-> "", name |-> "", input |-> EmptyInput]

ToolUseBlock(id, name, input) ==
    [type |-> "tool_use", text |-> "", id |-> id, name |-> name, input |-> input]

Response(blocks, stop_reason) == [content |-> blocks, stop_reason |-> stop_reason]

\* One entry of a tool_calls list as json.loads returns it: `has` are the
\* keys of the entry, `fhas` the keys of its "function" object, `arguments`
\* the value under function.arguments (a serialized string when
\* args_is_str: `args_parse` tells whether json.loads accepts it and `args`
\* is then its value; the string itself is args_raw).
ToolCall(has, fhas, id, name, args_is_str, args_parse, args_raw, args) ==
    [has |-> has, fhas |-> fhas, id |-> id, name |-> name,
     args_is_str |-> args_is_str, args_parse |-> args_parse,
     args_raw |-> args_raw, args |-> args]

\* the conversion loop `for tc in tool_list` of chat_with_tools, from entry
\* i on; failed: a KeyError left the loop for the outer `except`
RECURSIVE convert_tool_list(_, _, _)
convert_tool_list(tool_list, i, blocks) ==
    IF i > Len(tool_list) THEN [blocks |-> blocks, failed |-> FALSE]
    ELSE LET tc == tool_list[i]
         IN  IF "function" \notin tc.has
             THEN convert_tool_list(tool_list, i + 1, blocks)
             ELSE IF "arguments" \notin tc.fhas \/ "name" \notin tc.fhas
             THEN [blocks |-> blocks, failed |-> TRUE]
             ELSE LET args == IF tc.args_is_str /\ ~tc.args_parse
                              THEN RawInput(tc.args_raw)
                              ELSE tc.args
                      id == IF "id" \in tc.has THEN tc.id ELSE "call_1"
                  IN  convert_tool_list(tool_list, i + 1,
                          Append(blocks, ToolUseBlock(id, tc.name, args)))

\* chat_with_tools without the text block of data["content"] (a variant of
\* the code, to see that the leading text block rests on it)
chat_with_tools_without_text(raw) ==
    IF ~raw.success
    THEN Response(<<TextBlock("Error: " \o raw.content)>>, "end_turn")
    ELSE IF raw.json.shape = "dict" /\ raw.json.has_tool_calls
    THEN Response(convert_tool_list(raw.json.calls, 1, <<>>).blocks, "tool_use")
    ELSE Response(<<TextBlock(raw.content)>>, "end_turn")

\* chat_with_tools giving no block for a failed call (a variant of the
\* code, to see that the report of a failed model call rests on the
\* "Error: ..." block)
chat_with_tools_dropping_error(raw) ==
    IF ~raw.success THEN Response(<<>>, "end_turn")
    ELSE chat_with_tools_without_text(raw)

\* LLMChatAdapter.chat_with_tools from the reply of self.chat on: raw is
\* (success, content) with `json` what json.loads(content) gives:
\* shape "none" when content is no JSON, "dict" / "list" / "other" else.
chat_with_tools(raw) ==
    IF ~raw.success
    THEN Response(<<TextBlock("Error: " \o raw.content)>>, "end_turn")
    ELSE IF raw.json.shape = "none"
    THEN Response(<<TextBlock(raw.content)>>, "end_turn")
    ELSE LET data == raw.json
             is_new == data.shape = "dict" /\ data.has_tool_calls
             is_legacy == /\ ~is_new
                          /\ data.shape = "list"
                          /\ Len(data.calls) > 0
                          /\ \/ "function" \in data.calls[1].has
                             \/ "type" \in data.calls[1].has
             stop_reason == IF is_new \/ is_legacy THEN "tool_use" ELSE "end_turn"
             blocks0 == IF is_new /\ data.text # ""
                        THEN <<TextBlock(data.text)>> ELSE <<>>
         IN  IF is_new \/ is_legacy
             THEN LET r == convert_tool_list(data.calls, 1, blocks0)
                  IN  IF r.failed
                      THEN Response(Append(r.blocks, TextBlock(raw.content)),
                                    stop_reason)
                      ELSE Response(r.blocks, stop_reason)
             ELSE Response(<<TextBlock(raw.content)>>, stop_reason)

(***************************************************************************)
(* Replies of the model-call layer.                                        *)
(***************************************************************************)
NoJson == [shape |-> "none", has_tool_calls |-> FALSE, text |-> "", calls |-> <<>>]

\* the model call failed: self.chat returned (False, message)
ReplyFailure(msg) == [success |-> FALSE, content |-> msg, json |-> NoJson]

\* a plain-text reply
ReplyText(t) == [success |-> TRUE, content |-> t, json |-> NoJson]

\* a reply that is a JSON object {"content": text, "tool_calls": calls}
ReplyToolCalls(content, text, calls) ==
    [success |-> TRUE, content |-> content,
     json |-> [shape |-> "dict", has_tool_calls |-> TRUE, text |-> text,
               calls |-> calls]]

\* a reply that is a JSON list of tool calls (the legacy shape)
ReplyLegacy(content, calls) ==
    [success |-> TRUE, content |-> content,
     json |-> [shape |-> "list", has_tool_calls |-> FALSE, text |-> "",
               calls |-> calls]]

\* a well-formed tool call whose arguments parse to the dict `args`
Call(id, name, args) ==
    ToolCall({"id", "type", "function"}, {"name", "arguments"}, id, name,
             TRUE, TRUE, "", args)

\* a tool call whose arguments string does not parse
CallRaw(id, name, s) ==
    ToolCall({"id", "type", "function"}, {"name", "arguments"}, id, name,
             TRUE, FALSE, s, EmptyInput)

(***************************************************************************)
(* The sandboxed primitives of utils.py.  A path is resolved to its        *)
(* sequence of segments; `files` maps the resolved path of each existing   *)
(* file to its text.  Symbolic links are not modelled.                     *)
(***************************************************************************)
\* output[:50000] and "\n".join(lines)[:50000]
MaxOutput == 50000

\* WORKDIR = Path.cwd()
WORKDIR == <<"work">>

\* s.split("/")
RECURSIVE split_slash(_, _)
split_slash(s, cur) ==
    IF Len(s) = 0 THEN <<cur>>
    ELSE IF SubSeq(s, 1, 1) = "/"
    THEN <<cur>> \o split_slash(Tail(s), "")
    ELSE split_slash(Tail(s), cur \o SubSeq(s, 1, 1))

\* Path.resolve(): "." and "" segments dropped, ".." takes one segment back
RECURSIVE resolve(_, _)
resolve(base, segs) ==
    IF Len(segs) = 0 THEN base
    ELSE IF segs[1] \in {"", "."} THEN resolve(base, Tail(segs))
    ELSE IF segs[1] = ".."
    THEN resolve(IF Len(base) = 0 THEN base ELSE SubSeq(base, 1, Len(base) - 1),
                 Tail(segs))
    ELSE resolve(Append(base, segs[1]), Tail(segs))

\* Path.is_relative_to
is_relative_to(path, root) ==
    Len(root) <= Len(path) /\ SubSeq(path, 1, Len(root)) = root

\* safe_path without its test (a variant of the code, to see that the
\* rejection of a path rests on it)
safe_path_unchecked(p) ==
    [ok |-> TRUE,
     path |-> resolve(IF Len(p) > 0 /\ SubSeq(p, 1, 1) = "/" THEN <<>> ELSE WORKDIR,
                      split_slash(p, "")),
     error |-> ""]

\* safe_path(p): (WORKDIR / p).resolve(), a ValueError when it leaves WORKDIR
safe_path(p) ==
    LET base == IF Len(p) > 0 /\ SubSeq(p, 1, 1) = "/" THEN <<>> ELSE WORKDIR
        path == resolve(base, split_slash(p, ""))
    IN  [ok |-> is_relative_to(path, WORKDIR), path |-> path,
         error |-> "Path escapes workspace: " \o p]

\* what the shell does with a command: whether it outlives the 120 s
\* timeout, and what it prints
shell(cmd) ==
    [timeout |-> Contains(cmd, "sleep 200"),
     output |-> IF Len(cmd) > 5 /\ SubSeq(cmd, 1, 5) = "echo "
                THEN SubSeq(cmd, 6, Len(cmd)) \o "\n" ELSE ""]

truncate(s, n) == IF Len(s) > n THEN SubSeq(s, 1, n) ELSE s

\* run_bash without its denylist (a variant of the code, to see that the
\* blocking of a command rests on it)
run_bash_unguarded(cmd) ==
    LET sh == shell(cmd)
        output == strip(sh.output)
    IN  IF sh.timeout THEN "Error: Timeout"
        ELSE IF output # "" THEN truncate(output, MaxOutput)
        ELSE "(no output)"

\* run_bash(cmd)
run_bash(cmd) ==
    IF \E d \in {"rm -rf /", "sudo", "shutdown", "reboot"} : Contains(cmd, d)
    THEN "Error: Dangerous command blocked"
    ELSE LET sh == shell(cmd)
             output == strip(sh.output)
         IN  IF sh.timeout THEN "Error: Timeout"
             ELSE IF output # "" THEN truncate(output, MaxOutput)
             ELSE "(no output)"

\* str.splitlines()
RECURSIVE splitlines(_, _)
splitlines(s, cur) ==
    IF Len(s) = 0 THEN (IF cur = "" THEN <<>> ELSE <<cur>>)
    ELSE IF SubSeq(s, 1, 1) = "\n"
    THEN <<cur>> \o splitlines(Tail(s), "")
    ELSE splitlines(Tail(s), cur \o SubSeq(s, 1, 1))

\* lines[:limit]
slice_to(lines, limit) ==
    IF limit >= 0
    THEN SubSeq(lines, 1, IF limit < Len(lines) THEN limit ELSE Len(lines))
    ELSE SubSeq(lines, 1, IF Len(lines) + limit > 0 THEN Len(lines) + limit ELSE 0)

\* run_read(path, limit); has_limit is FALSE for limit=None
run_read(files, path, has_limit, limit) ==
    LET sp == safe_path(path)
    IN  IF ~sp.ok THEN "Error: " \o sp.error
        ELSE IF sp.path \notin DOMAIN files
        THEN "Error: [Errno 2] No such file or directory"
        ELSE LET lines == splitlines(files[sp.path], "")
                 shown == IF has_limit /\ limit # 0 /\ limit < Len(lines)
                          THEN Append(slice_to(lines, limit),
                                      "... (" \o ToString(Len(lines) - limit)
                                              \o " more lines)")
                          ELSE lines
             IN  truncate(join(shown), MaxOutput)

\* the result of a tool that may also write: text returned, files afterwards
FileResult(text, files) == [text |-> text, files |-> files]

\* run_write(path, content)
run_write(files, path, content) ==
    LET sp == safe_path(path)
    IN  IF ~sp.ok THEN FileResult("Error: " \o sp.error, files)
        ELSE FileResult("Wrote " \o ToString(Len(content)) \o " bytes to " \o path,
                        [q \in DOMAIN files \cup {sp.path} |->
                            IF q = sp.path THEN content ELSE files[q]])

\* the last occurrence replaced instead of the first (a variant of the
\* code, to see that the place of the edit rests on replace(..., 1))
replace_last(content, old_text, new_text) ==
    LET i == CHOOSE j \in 1..(Len(content) - Len(old_text) + 1) :
                 /\ SubSeq(content, j, j + Len(old_text) - 1) = old_text
                 /\ \A k \in (j + 1)..(Len(content) - Len(old_text) + 1) :
                        SubSeq(content, k, k + Len(old_text) - 1) # old_text
    IN  SubSeq(content, 1, i - 1) \o new_text
            \o SubSeq(content, i + Len(old_text), Len(content))

\* content.replace(old_text, new_text, 1)
replace_first(content, old_text, new_text) ==
    LET i == CHOOSE j \in 1..(Len(content) - Len(old_text) + 1) :
                 /\ SubSeq(content, j, j + Len(old_text) - 1) = old_text
                 /\ \A k \in 1..(j - 1) :
                        SubSeq(content, k, k + Len(old_text) - 1) # old_text
    IN  SubSeq(content, 1, i - 1) \o new_text
            \o SubSeq(content, i + Len(old_text), Len(content))

\* run_edit(path, old_text, new_text)
run_edit(files, path, old_text, new_text) ==
    LET sp == safe_path(path)
    IN  IF ~sp.ok THEN FileResult("Error: " \o sp.error, files)
        ELSE IF sp.path \notin DOMAIN files
        THEN FileResult("Error: [Errno 2] No such file or directory", files)
        ELSE IF ~Contains(files[sp.path], old_text)
        THEN FileResult("Error: Text not found in " \o path, files)
        ELSE FileResult("Edited " \o path,
                        [files EXCEPT ![sp.path] =
                            replace_first(files[sp.path], old_text, new_text)])

(***************************************************************************)
(* Tool dispatch.  The outcome of a dispatch: kind "return" with the       *)
(* string returned, "raise" with the exception that leaves the dispatcher, *)
(* "none" when execute_base_tools returns None, "spawn" when a subagent    *)
(* loop is to run; with the files and the Todo list left behind.           *)
(***************************************************************************)
Return(text, files, todo) ==
    [kind |-> "return", text |-> text, files |-> files, todo |-> todo]
Raised(text, files, todo) ==
    [kind |-> "raise", text |-> text, files |-> files, todo |-> todo]
NoResult(files, todo) ==
    [kind |-> "none", text |-> "", files |-> files, todo |-> todo]
Spawn(files, todo) ==
    [kind |-> "spawn", text |-> "", files |-> files, todo |-> todo]

\* `key in args`: membership in a dict's keys, a substring test on a str
has_key(args, key) ==
    IF args.kind = "dict" THEN key \in args.keys ELSE Contains(args.raw, key)

\* the exception of args[key], "" when there is none
getitem_error(args, key) ==
    IF args.kind = "str" THEN "string indices must be integers"
    ELSE IF key \notin args.keys THEN "'" \o key \o "'"
    ELSE ""

\* execute_base_tools(name, args), called without a todo_manager
execute_base_tools(name, args, files, todo) ==
    IF name = "bash"
    THEN IF ~has_key(args, "command")
         THEN Return("Error: bash command required", files, todo)
         ELSE IF getitem_error(args, "command") # ""
         THEN Raised(getitem_error(args, "command"), files, todo)
         ELSE Return(run_bash(args.command), files, todo)
    ELSE IF name = "read_file"
    THEN IF ~has_key(args, "path")
         THEN Return("Error: read_file path required", files, todo)
         ELSE IF has_key(args, "limit") /\ getitem_error(args, "limit") # ""
         THEN Raised(getitem_error(args, "limit"), files, todo)
         ELSE IF getitem_error(args, "path") # ""
         THEN Raised(getitem_error(args, "path"), files, todo)
         ELSE Return(run_read(files, args.path, has_key(args, "limit"), args.limit),
                     files, todo)
    ELSE IF name = "write_file"
    THEN IF ~has_key(args, "path")
         THEN Return("Error: write_file path required", files, todo)
         ELSE IF ~has_key(args, "content")
         THEN Return("Error: write_file content required", files, todo)
         ELSE IF getitem_error(args, "path") # ""
         THEN Raised(getitem_error(args, "path"), files, todo)
         ELSE LET r == run_write(files, args.path, args.content)
              IN  Return(r.text, r.files, todo)
    ELSE IF name = "edit_file"
    THEN IF ~has_key(args, "path")
         THEN Return("Error: edit_file path required", files, todo)
         ELSE IF ~has_key(args, "old_text")
         THEN Return("Error: edit_file old_text required", files, todo)
         ELSE IF ~has_key(args, "new_text")
         THEN Return("Error: edit_file new_text required", files, todo)
         ELSE IF getitem_error(args, "path") # ""
         THEN Raised(getitem_error(args, "path"), files, todo)
         ELSE LET r == run_edit(files, args.path, args.old_text, args.new_text)
              IN  Return(r.text, r.files, todo)
    ELSE NoResult(files, todo)

\* AGENT_TYPES of utils.py: the tools each agent type is offered
AGENT_TYPES ==
    [explore |-> {"bash", "read_file"},
     code |-> {"bash", "read_file", "write_file", "edit_file", "TodoWrite"},
     plan |-> {"bash", "read_file"}]

\* run_todo without its try (a variant of the code, to see that the handling
\* of a failed tool rests on it)
run_todo_unguarded(items, files, todo) ==
    LET r == update(todo, items)
    IN  IF r.raised THEN Raised(r.text, files, todo)
        ELSE Return(r.text, files, r.items)

\* run_todo / the TodoWrite branch with its try: TODO.update(items),
\* a ValueError becoming an "Error: ..." string
run_todo(items, files, todo) ==
    LET r == update(todo, items)
    IN  IF r.raised THEN Return("Error: " \o r.text, files, r.items)
        ELSE Return(r.text, files, r.items)

\* the first exception of args["description"], args["prompt"],
\* args["agent_type"], "" when there is none
task_args_error(args) ==
    IF getitem_error(args, "description") # "" THEN getitem_error(args, "description")
    ELSE IF getitem_error(args, "prompt") # "" THEN getitem_error(args, "prompt")
    ELSE getitem_error(args, "agent_type")

\* run_task without the test of the agent type (a variant of the code, to
\* see that the error for an unknown type rests on it)
run_task_start_unchecked(args, files, todo) == Spawn(files, todo)

\* run_task / run_subagent_task up to the start of its loop: the
\* unknown-agent-type error, or the subagent loop to run
run_task_start(args, files, todo) ==
    IF args.agent_type \notin DOMAIN AGENT_TYPES
    THEN Return("Error: Unknown agent type '" \o args.agent_type \o "'", files, todo)
    ELSE Spawn(files, todo)

(***************************************************************************)
(* SkillLoader (v4_skills.py).  The skills directory is WORKDIR/skills of  *)
(* `files`; a directory exists when a file lies under it.                  *)
(***************************************************************************)
\* s.split("\n")
RECURSIVE split_newline(_, _)
split_newline(s, cur) ==
    IF Len(s) = 0 THEN <<cur>>
    ELSE IF SubSeq(s, 1, 1) = "\n"
    THEN <<cur>> \o split_newline(Tail(s), "")
    ELSE split_newline(Tail(s), cur \o SubSeq(s, 1, 1))

\* s.strip("\"'")
RECURSIVE strip_quotes(_)
strip_quotes(s) ==
    IF Len(s) > 0 /\ SubSeq(s, 1, 1) \in {"\"", "'"}
    THEN strip_quotes(Tail(s))
    ELSE IF Len(s) > 0 /\ SubSeq(s, Len(s), Len(s)) \in {"\"", "'"}
    THEN strip_quotes(SubSeq(s, 1, Len(s) - 1))
    ELSE s

\* the index of the first ":" of the line, 0 when it has none
colon_index(line) ==
    IF \E i \in 1..Len(line) : SubSeq(line, i, i) = ":"
    THEN CHOOSE i \in 1..Len(line) :
             /\ SubSeq(line, i, i) = ":"
             /\ \A k \in 1..(i - 1) : SubSeq(line, k, k) # ":"
    ELSE 0

\* the loop over the lines of the frontmatter: metadata is a function from
\* the keys found to their values, a later line replacing an earlier one
RECURSIVE parse_metadata(_, _)
parse_metadata(lines, metadata) ==
    IF Len(lines) = 0 THEN metadata
    ELSE LET line == lines[1]
             c == colon_index(line)
             key == strip(SubSeq(line, 1, c - 1))
             value == strip_quotes(strip(SubSeq(line, c + 1, Len(line))))
         IN  IF c = 0 THEN parse_metadata(Tail(lines), metadata)
             ELSE parse_metadata(Tail(lines),
                      [k \in DOMAIN metadata \cup {key} |->
                          IF k = key THEN value ELSE metadata[k]])

\* re.match(r"^---\s*\n(.*?)\n---\s*\n(.*)$", content, re.DOTALL): the
\* first \s* takes as much as it can, the frontmatter as little as it can,
\* the second \s* as much as it can
frontmatter_match(content) ==
    LET n == Len(content)
        ws(a, b) == \A t \in a..b : IsSpace(SubSeq(content, t, t))
        K(j) == {k \in (j + 4)..n : SubSeq(content, k, k) = "\n" /\ ws(j + 4, k - 1)}
        J(i) == {j \in (i + 1)..(n - 3) : SubSeq(content, j, j + 3) = "\n---" /\ K(j) # {}}
        I == {i \in 4..n : SubSeq(content, i, i) = "\n" /\ ws(4, i - 1) /\ J(i) # {}}
    IN  IF n < 3 \/ SubSeq(content, 1, 3) # "---" \/ I = {}
        THEN [matched |-> FALSE, frontmatter |-> "", body |-> ""]
        ELSE LET i == CHOOSE x \in I : \A y \in I : y <= x
                 j == CHOOSE x \in J(i) : \A y \in J(i) : x <= y
                 k == CHOOSE x \in K(j) : \A y \in K(j) : y <= x
             IN  [matched |-> TRUE, frontmatter |-> SubSeq(content, i + 1, j - 1),
                  body |-> SubSeq(content, k + 1, n)]

NoSkill == [ok |-> FALSE, name |-> "", description |-> "", body |-> "", dir |-> <<>>]

\* parse_skill_md without the test for name and description (a variant of
\* the code, to see that the skipping of a package rests on it)
parse_skill_md_lenient(content, dir) ==
    LET m == frontmatter_match(content)
        metadata == parse_metadata(split_newline(strip(m.frontmatter), ""), <<>>)
    IN  IF ~m.matched THEN NoSkill
        ELSE [ok |-> TRUE,
              name |-> IF "name" \in DOMAIN metadata THEN metadata["name"] ELSE "",
              description |-> IF "description" \in DOMAIN metadata
                              THEN metadata["description"] ELSE "",
              body |-> strip(m.body), dir |-> dir]

\* SkillLoader.parse_skill_md(path), on the text of the file; dir is
\* path.parent
parse_skill_md(content, dir) ==
    LET m == frontmatter_match(content)
        metadata == parse_metadata(split_newline(strip(m.frontmatter), ""), <<>>)
    IN  IF ~m.matched THEN NoSkill
        ELSE IF "name" \notin DOMAIN metadata \/ "description" \notin DOMAIN metadata
        THEN NoSkill
        ELSE [ok |-> TRUE, name |-> metadata["name"],
              description |-> metadata["description"], body |-> strip(m.body),
              dir |-> dir]

SKILLS_DIR == WORKDIR \o <<"skills">>

\* the subdirectories of skills_dir
skill_dirs(files) ==
    {q[Len(SKILLS_DIR) + 1] : q \in {r \in DOMAIN files :
        Len(r) > Len(SKILLS_DIR) + 1 /\ is_relative_to(r, SKILLS_DIR)}}

\* self.skills[skill["name"]] = skill on a dict kept as the sequence of its
\* values in insertion order
dict_set(skills, skill) ==
    IF \E i \in 1..Len(skills) : skills[i].name = skill.name
    THEN [i \in 1..Len(skills) |->
             IF skills[i].name = skill.name THEN skill ELSE skills[i]]
    ELSE Append(skills, skill)

\* SkillLoader.load_skills: `order` is the order in which iterdir() yields
\* the subdirectories
RECURSIVE load_skills(_, _, _)
load_skills(files, order, skills) ==
    IF Len(order) = 0 THEN skills
    ELSE LET skill_dir == Append(SKILLS_DIR, order[1])
             skill_md == Append(skill_dir, "SKILL.md")
         IN  IF skill_md \notin DOMAIN files
             THEN load_skills(files, Tail(order), skills)
             ELSE LET skill == parse_skill_md(files[skill_md], skill_dir)
                  IN  load_skills(files, Tail(order),
                          IF skill.ok THEN dict_set(skills, skill) ELSE skills)

\* the orders iterdir() may yield the names of S in
Orders(S) ==
    {o \in [1..Cardinality(S) -> S] :
        \A a, b \in 1..Cardinality(S) : a # b => o[a] # o[b]}

\* get_descriptions with the names alone (a variant of the code, to see
\* that the summaries rest on it)
get_descriptions_names_only(skills) ==
    IF Len(skills) = 0 THEN "(no skills available)"
    ELSE join([i \in 1..Len(skills) |-> "- " \o skills[i].name])

\* SkillLoader.get_descriptions
get_descriptions(skills) ==
    IF Len(skills) = 0 THEN "(no skills available)"
    ELSE join([i \in 1..Len(skills) |->
                  "- " \o skills[i].name \o ": " \o skills[i].description])

\* ", ".join(names)
RECURSIVE join_comma(_)
join_comma(names) ==
    IF Len(names) = 0 THEN ""
    ELSE IF Len(names) = 1 THEN names[1]
    ELSE names[1] \o ", " \o join_comma(Tail(names))

\* "/".join of the segments of an absolute path
RECURSIVE path_text(_)
path_text(path) ==
    IF Len(path) = 0 THEN "" ELSE "/" \o path[1] \o path_text(Tail(path))

\* the names folder_path.glob("*") yields: what lies directly in the folder
glob_names(files, folder) ==
    {q[Len(folder) + 1] : q \in {r \in DOMAIN files :
        Len(r) > Len(folder) /\ is_relative_to(r, folder)}}

\* one order of the names of a folder, as glob may yield them
some_order(S) == CHOOSE o \in Orders(S) : TRUE

\* the resources lines of get_skill_content, in the order of the folders;
\* the names of one folder are joined in the order glob yields them
resource_lines(files, dir) ==
    LET line(folder, label) ==
            IF glob_names(files, Append(dir, folder)) = {} THEN <<>>
            ELSE <<"- " \o label \o ": "
                     \o join_comma(some_order(glob_names(files, Append(dir, folder))))>>
    IN  line("scripts", "Scripts") \o line("references", "References")
            \o line("assets", "Assets")

\* SkillLoader.get_skill_content(name); found is FALSE for None
get_skill_content(skills, files, name) ==
    IF ~\E i \in 1..Len(skills) : skills[i].name = name
    THEN [found |-> FALSE, content |-> ""]
    ELSE LET skill == skills[CHOOSE i \in 1..Len(skills) : skills[i].name = name]
             resources == resource_lines(files, skill.dir)
             content == "# Skill: " \o skill.name \o "\n\n" \o skill.body
         IN  [found |-> TRUE,
              content |-> IF Len(resources) = 0 THEN content
                          ELSE content \o "\n\n**Available resources in "
                                   \o path_text(skill.dir) \o ":**\n"
                                   \o join(resources)]

\* SkillLoader.list_skills
list_skills(skills) == [i \in 1..Len(skills) |-> skills[i].name]

\* run_skill with an error that lists nothing (a variant of the code, to
\* see that the listing of the available skills rests on it)
run_skill_without_listing(skills, files, skill_name) ==
    LET c == get_skill_content(skills, files, skill_name)
    IN  IF ~c.found THEN "Error: Unknown skill '" \o skill_name \o "'"
        ELSE "<skill-loaded name=\"" \o skill_name \o "\">\n" \o c.content
                 \o "\n</skill-loaded>"

\* run_skill on the loader `skills`
run_skill_with(skills, files, skill_name) ==
    LET c == get_skill_content(skills, files, skill_name)
        available == IF Len(skills) = 0 THEN "none"
                     ELSE join_comma(list_skills(skills))
    IN  IF ~c.found
        THEN "Error: Unknown skill '" \o skill_name \o "'. Available: " \o available
        ELSE "<skill-loaded name=\"" \o skill_name \o "\">\n" \o c.content
                 \o "\n</skill-loaded>\n\nFollow the instructions in the skill above to complete the user's task."

\* the text of skills/pdf/SKILL.md
PdfSkillMd == "---\nname: pdf\ndescription: handle pdfs\n---\n\nUse pdftotext.\n"

\* the files at startup: one file of the workspace, its one skill package,
\* and a file outside the workspace
InitFiles ==
    (<<"work", "a.txt">> :> "x\ny\nz")
        @@ (<<"work", "skills", "pdf", "SKILL.md">> :> PdfSkillMd)
        @@ (<<"etc", "passwd">> :> "root")

\* SKILLS = SkillLoader(SKILLS_DIR): the skills loaded at startup
SKILLS == load_skills(InitFiles, some_order(skill_dirs(InitFiles)), <<>>)

\* run_skill(skill_name)
run_skill(files, skill_name) == run_skill_with(SKILLS, files, skill_name)

\* execute_tool(name, args) of v1_basic.py .. v4_skills.py
execute_tool(ver, name, args, files, todo) ==
    LET base == execute_base_tools(name, args, files, todo)
        unknown == Return("Unknown tool: " \o name, files, todo)
    IN  IF base.kind # "none" THEN base
        ELSE IF ver = "v1" THEN unknown
        ELSE IF ver = "v2"
        THEN IF name = "TodoWrite"
             THEN IF getitem_error(args, "items") # ""
                  THEN Raised(getitem_error(args, "items"), files, todo)
                  ELSE run_todo(args.items, files, todo)
             ELSE unknown
        ELSE IF ver = "v3"
        THEN IF name = "TodoWrite"
             THEN IF getitem_error(args, "items") # ""
                  THEN Return("Error: " \o getitem_error(args, "items"), files, todo)
                  ELSE run_todo(args.items, files, todo)
             ELSE IF name = "Task"
             THEN IF task_args_error(args) # ""
                  THEN Raised(task_args_error(args), files, todo)
                  ELSE run_task_start(args, files, todo)
             ELSE unknown
        ELSE \* v4
             IF name = "TodoWrite"
             THEN IF getitem_error(args, "items") # ""
                  THEN Return("Error: " \o getitem_error(args, "items"), files, todo)
                  ELSE run_todo(args.items, files, todo)
             ELSE IF name = "Task"
             THEN IF task_args_error(args) # ""
                  THEN Return("Error: " \o task_args_error(args), files, todo)
                  ELSE run_task_start(args, files, todo)
             ELSE IF name = "Skill"
             THEN IF getitem_error(args, "skill") # ""
                  THEN Return("Error: " \o getitem_error(args, "skill"), files, todo)
                  ELSE Return(run_skill(files, args.skill), files, todo)
             ELSE unknown

(***************************************************************************)
(* The state.                                                              *)
(***************************************************************************)
VARIABLES
    ver,        \* which program runs: "v0" (v0_bash.py) .. "v4" (v4_skills.py)
    max_steps,  \* the step budget max_steps of the loops
    stub,       \* the replies the model-call layer may give
    inputs,     \* how many more lines main() will read from the user
    history,    \* main()'s history list
    TODO,       \* TODO.items of the module's TodoManager
    files,      \* the files of the workspace
    stack,      \* the running loops: agent_loop / chat, then nested run_task
    result,     \* what the last call of agent_loop / chat gave main()
    last_response,  \* the Response client.chat_with_tools returned last
    todoCall,   \* a TodoManager.update call on its own: request and outcome
    raw_reply,  \* a chat_with_tools call on its own: what self.chat returned
    skillLoad   \* a SkillLoader on its own: its skills and the last answer

vars == <<ver, max_steps, stub, inputs, history, TODO, files, stack, result,
          last_response, todoCall, raw_reply, skillLoad>>

Versions == {"v0", "v1", "v2", "v3", "v4"}

\* a history entry {"role": ..., "content": ...}; the content is `text`,
\* and for a message of tool results the results it lists, in `entries`
Msg(role, kind, text, entries) ==
    [role |-> role, kind |-> kind, text |-> text, entries |-> entries]

\* SYSTEM with the content of every skill spliced in (a variant of the code,
\* to see that the disclosure of a body rests on SYSTEM holding summaries)
SYSTEM_with_bodies(v) ==
    IF v = "v4"
    THEN "SYSTEM\n" \o get_descriptions(skillLoad.skills) \o "\n"
             \o join([i \in 1..Len(skillLoad.skills) |-> skillLoad.skills[i].body])
    ELSE "SYSTEM"

\* SYSTEM: v4's holds SKILLS.get_descriptions(), of the skills the loader
\* holds since startup
SYSTEM(v) ==
    IF v = "v4" THEN "SYSTEM\n" \o get_descriptions(skillLoad.skills) ELSE "SYSTEM"

SystemMsg == Msg("system", "system", SYSTEM(ver), <<>>)
UserMsg(text) == Msg("user", "input", text, <<>>)
AssistantMsg(text) == Msg("assistant", "text", text, <<>>)
\* the results of a step added under the system role (a variant of the
\* code, to see that the place of skill content rests on the role)
ResultsMsg_as_system(entries) == Msg("system", "results", "", entries)

ResultsMsg(entries) == Msg("user", "results", "", entries)
\* the results message of a subagent's step: its entries carry the tag of
\* the agent type (v3_subagent.py:191, 200)
SubResultsMsg(agent_type, entries) == Msg("user", "sub_results", agent_type, entries)
\* "Error: Tool call failed or produced no output." (v0_bash.py)
NoOutputMsg ==
    Msg("user", "error", "Error: Tool call failed or produced no output.", <<>>)

\* one "tool X, input Y, output Z" line of a results message
Entry(name, input, output) == [name |-> name, input |-> input, output |-> output]

\* the message chat returns when the budget is used up (v0_bash.py:148),
\* in translation: the source's text is not ASCII
STEP_LIMIT_MESSAGE == "step limit reached, stopping"

\* what a finished call gave main(): kind "text" (a string, in text),
\* "history" (the history list), "None", or "raised" (the exception, in
\* text); how the run ended, the model calls it made and the text of its
\* last turn
Result(kind, text, how, calls, full_text) ==
    [kind |-> kind, text |-> text, how |-> how, calls |-> calls,
     full_text |-> full_text]

NoResponse == Response(<<>>, "")

\* no SkillLoader on its own has been built
NoSkillLoad == [phase |-> "none", skills |-> <<>>, query |-> "", text |-> ""]

\* no chat_with_tools call on its own has been made
NoReply == ReplyFailure("")

\* the local variables of one running loop; todo_before records, for a
\* subagent, the list TODO held when it was spawned
Frame(fn, agent_type, messages, tools) ==
    [fn |-> fn, agent_type |-> agent_type, messages |-> messages, tools |-> tools,
     pc |-> "start", prompt |-> "", step |-> 0, calls |-> 0, response |-> NoResponse,
     full_text |-> "", tool_calls |-> <<>>, idx |-> 1, results |-> <<>>,
     dispatched |-> <<>>, todo_before |-> <<>>]

Top == stack[Len(stack)]
Running == Len(stack) > 0

\* the tools offered to the model by each program's main loop
TOOLS(v) ==
    CASE v = "v0" -> {"bash"}
      [] v = "v1" -> {"bash", "read_file", "write_file", "edit_file"}
      [] v = "v2" -> {"bash", "read_file", "write_file", "edit_file", "TodoWrite"}
      [] v = "v3" -> {"bash", "read_file", "write_file", "edit_file", "TodoWrite",
                      "Task"}
      [] OTHER    -> {"bash", "read_file", "write_file", "edit_file", "TodoWrite",
                      "Task", "Skill"}

\* get_tools_for_agent(agent_type)
get_tools_for_agent(agent_type) ==
    IF agent_type \in DOMAIN AGENT_TYPES THEN AGENT_TYPES[agent_type]
    ELSE AGENT_TYPES["code"]

has_system(h) == \E i \in 1..Len(h) : h[i].role = "system"

\* history.insert(0, system message) unless there is one
with_system(h) == IF has_system(h) THEN h ELSE <<SystemMsg>> \o h

\* LLMChatAdapter(llm): keep_messages_count
KEEP_MESSAGES_COUNT == 20

\* SystemMessage / AIMessage / HumanMessage with the content of msg
LangchainMessage(msg) ==
    [type |-> IF msg.role = "system" THEN "system"
              ELSE IF msg.role = "assistant" THEN "ai" ELSE "human",
     content |-> [kind |-> msg.kind, text |-> msg.text, entries |-> msg.entries]]

\* LLMChatAdapter._build_langchain_messages(history_messages, prompt_text)
\* with self.system_info = system_info
build_langchain_messages(history_messages, prompt_text, system_info) ==
    LET head == IF system_info # ""
                THEN <<[type |-> "system",
                        content |-> [kind |-> "system", text |-> system_info,
                                     entries |-> <<>>]]>>
                ELSE <<>>
        n == Len(history_messages)
        recent_messages == IF n > KEEP_MESSAGES_COUNT
                           THEN SubSeq(history_messages, n - KEEP_MESSAGES_COUNT + 1, n)
                           ELSE history_messages
    IN  IF n = 0
        THEN Append(head, [type |-> "human",
                           content |-> [kind |-> "input", text |-> prompt_text,
                                        entries |-> <<>>]])
        ELSE head \o [i \in 1..Len(recent_messages) |->
                         LangchainMessage(recent_messages[i])]

\* the partition of response.content into texts and tool calls
RECURSIVE texts_of(_)
texts_of(blocks) ==
    IF Len(blocks) = 0 THEN <<>>
    ELSE (IF blocks[1].type = "text" THEN <<blocks[1].text>> ELSE <<>>)
             \o texts_of(Tail(blocks))

tool_calls_of(blocks) == SelectSeq(blocks, LAMBDA b : b.type = "tool_use")

(***************************************************************************)
(* The replies the stubbed model-call layer may give.                      *)
(***************************************************************************)
Args(keys) == [EmptyInput EXCEPT !.keys = keys]

BashArgs(cmd) == [Args({"command"}) EXCEPT !.command = cmd]
ReadArgs(path) == [Args({"path"}) EXCEPT !.path = path]
SkillArgs(skill) == [Args({"skill"}) EXCEPT !.skill = skill]
WriteArgs(path, content) ==
    [Args({"path", "content"}) EXCEPT !.path = path, !.content = content]
EditArgs(path, old_text, new_text) ==
    [Args({"path", "old_text", "new_text"}) EXCEPT
        !.path = path, !.old_text = old_text, !.new_text = new_text]
TodoArgs(items) == [Args({"items"}) EXCEPT !.items = items]
TaskArgs(agent_type, prompt) ==
    [Args({"description", "prompt", "agent_type"}) EXCEPT
        !.description = "subtask", !.prompt = prompt, !.agent_type = agent_type]

Item(content, status, activeForm) ==
    [has |-> {"content", "status", "activeForm"}, content |-> content,
     status |-> status, activeForm |-> activeForm]

\* the limits read_file is called with: negative, zero, below, at and above
\* the three lines of a.txt
ReadLimits == {-1, 0, 1, 2, 3, 4}

\* paths a file tool is called with: two inside the workspace, then paths
\* that leave it through "..", as an absolute path, and through both
FilePaths == {"a.txt", "sub/../b.txt", "../../etc/passwd", "/etc/passwd", "sub/../../etc/passwd"}

\* the replies the stubbed model may give, by stub
Replies(s) ==
    LET
        \* plain text, no tool call
        R_done == ReplyText("done")
        \* {"tool_calls": []}: no block at all, yet stop_reason tool_use
        R_no_calls == ReplyToolCalls("{tool_calls: []}", "", <<>>)
        \* one bash call and no text
        R_bash == ReplyToolCalls("{tool_calls: [bash]}", "", <<Call("1", "bash", BashArgs("echo hi"))>>)
        \* text, then the same bash call twice
        R_twice ==
            ReplyToolCalls("{content, tool_calls: [bash, bash]}", "running",
                <<Call("1", "bash", BashArgs("echo hi")), Call("1", "bash", BashArgs("echo hi"))>>)
        \* calls that fail: a path outside the workspace, a command that times out,
        \* a Todo list with two items in progress, a file that does not exist
        R_failing ==
            ReplyToolCalls("{tool_calls: [read_file, bash, TodoWrite, read_file]}", "",
                <<Call("1", "read_file", ReadArgs("../../etc/passwd")),
                  Call("2", "bash", BashArgs("sleep 200")),
                  Call("3", "TodoWrite", TodoArgs(<<Item("a", "in_progress", "doing a"),
                                                    Item("b", "in_progress", "doing b")>>)),
                  Call("4", "read_file", ReadArgs("missing.txt"))>>)
        \* a legacy list whose call has arguments that are no JSON: cut short
        R_raw_args == ReplyLegacy("[bash]", <<CallRaw("1", "bash", "{\"command\": \"ls\"")>>)
        \* a bash call with an empty command, an unknown tool, a read and a good
        \* Todo list
        R_mixed ==
            ReplyToolCalls("{tool_calls: [bash, grep, read_file, TodoWrite]}", "",
                <<Call("1", "bash", BashArgs("")),
                  Call("2", "grep", Args({})),
                  Call("3", "read_file", ReadArgs("a.txt")),
                  Call("4", "TodoWrite", TodoArgs(<<Item(" a ", "In_Progress", "doing a")>>))>>)
        \* a TodoWrite call without its items
        R_no_items == ReplyToolCalls("{tool_calls: [TodoWrite]}", "", <<Call("1", "TodoWrite", Args({}))>>)
        \* a subagent of a registered type
        R_task == ReplyToolCalls("{tool_calls: [Task]}", "", <<Call("1", "Task", TaskArgs("explore", "look"))>>)
        \* the model call failed
        R_failure == ReplyFailure("connection refused")
        \* a subagent of type code, then a TodoWrite call with a good list
        R_task_todo ==
            ReplyToolCalls("{tool_calls: [Task, TodoWrite]}", "",
                <<Call("1", "Task", TaskArgs("code", "edit")),
                  Call("2", "TodoWrite", TodoArgs(<<Item("a", "pending", "doing a")>>))>>)
        \* a subagent of a type that is not registered
        R_task_unknown ==
            ReplyToolCalls("{tool_calls: [Task]}", "", <<Call("1", "Task", TaskArgs("bogus", "look"))>>)
        \* a bash call for each pattern of the denylist, a harmless one, then a
        \* subagent of a registered type
        R_danger_task ==
            ReplyToolCalls("{tool_calls: [bash, bash, bash, bash, bash, Task]}", "",
                <<Call("1", "bash", BashArgs("echo x; rm -rf /")),
                  Call("2", "bash", BashArgs("echo x; sudo ls")),
                  Call("3", "bash", BashArgs("echo shutdown")),
                  Call("4", "bash", BashArgs("echo x && reboot")),
                  Call("5", "bash", BashArgs("echo hi")),
                  Call("6", "Task", TaskArgs("explore", "look"))>>)
        \* a Skill call naming a skill that is not loaded, then one naming the
        \* loaded skill
        R_skill ==
            ReplyToolCalls("{tool_calls: [Skill xls, Skill pdf]}", "",
                <<Call("1", "Skill", SkillArgs("xls")), Call("2", "Skill", SkillArgs("pdf"))>>)
        \* the file of the skill read with read_file
        R_read_skill ==
            ReplyToolCalls("{tool_calls: [read_file]}", "",
                <<Call("1", "read_file", ReadArgs("skills/pdf/SKILL.md"))>>)
        \* a read_file call, then a write_file call and a TodoWrite call
        R_write_todo ==
            ReplyToolCalls("{tool_calls: [read_file, write_file, TodoWrite]}", "",
                <<Call("1", "read_file", ReadArgs("a.txt")),
                  Call("2", "write_file", WriteArgs("b.txt", "new")),
                  Call("3", "TodoWrite", TodoArgs(<<Item("a", "pending", "doing a")>>))>>)
        \* one call of a file tool on the path
        R_file(name, path) ==
            ReplyToolCalls("{tool_calls: [" \o name \o " " \o path \o "]}", "",
                <<Call("1", name,
                       IF name = "read_file" THEN ReadArgs(path)
                       ELSE IF name = "write_file" THEN WriteArgs(path, "new")
                       ELSE EditArgs(path, "o", "0"))>>)
        \* one edit_file call on a.txt
        R_edit(old_text, new_text) ==
            ReplyToolCalls("{tool_calls: [edit_file]}", "",
                <<Call("1", "edit_file", EditArgs("a.txt", old_text, new_text))>>)
        \* one read_file call on a.txt with a limit
        R_read_limit(limit) ==
            ReplyToolCalls("{tool_calls: [read_file]}", "",
                <<Call("1", "read_file",
                       [Args({"path", "limit"}) EXCEPT !.path = "a.txt", !.limit = limit])>>)
        \* a bash call, then a subagent of a registered type
        R_bash_task ==
            ReplyToolCalls("{tool_calls: [bash, Task]}", "",
                <<Call("1", "bash", BashArgs("echo hi")),
                  Call("2", "Task", TaskArgs("explore", "look"))>>)
    IN
        CASE s = "core" -> {R_done, R_no_calls, R_bash, R_twice, R_failing, R_raw_args,
                            R_mixed, R_no_items}
          [] s = "sub"  -> {R_done, R_bash_task, R_raw_args}
          [] s = "live" -> {R_done, R_bash_task}
          [] s = "shared" -> {R_done, R_task_todo, R_task_unknown}
          [] s = "skills" -> {R_done, R_skill, R_read_skill}
          [] s = "filter" -> {R_done, R_task, R_write_todo}
          [] s = "shell" -> {R_done, R_danger_task}
          [] s = "todo" -> {R_done, R_mixed, R_failing}
          [] s = "failure" -> {R_done, R_bash_task, R_failure}
          [] s = "subtext" -> {R_done, R_no_calls, R_task, R_twice}
          [] s = "fileops" ->
                {R_done, R_edit("\n", "-"), R_edit("y", "x\nx"), R_edit("q", "r"),
                 R_edit("", "s")}
                    \cup {R_read_limit(limit) : limit \in ReadLimits}
          [] s = "files" -> {R_done} \cup {R_file(name, path) :
                                name \in {"read_file", "write_file", "edit_file"},
                                path \in FilePaths}
          [] OTHER      -> {R_done, R_bash, R_no_calls}

UserInputs == {"task"}


(***************************************************************************)
(* The loops: chat (v0), agent_loop (v1 .. v4) and run_task /              *)
(* run_subagent_task (v3, v4), as frames of the stack.                     *)
(***************************************************************************)
NoRun == Result("none", "", "", 0, "")
NoTodoCall == [active |-> FALSE, items |-> <<>>, raised |-> FALSE, text |-> ""]

\* a step of a nested loop during which the first loop makes a model call
\* of its own (a variant of the code, to see that the order of the calls
\* rests on run_task being called and awaited inside the dispatch)
SetTop_with_parent_call(f) ==
    [stack EXCEPT ![Len(stack)] = f,
                  ![1].calls = IF Len(stack) > 1 THEN @ + 1 ELSE @]

\* the running loop moves on: its frame is replaced
SetTop(f) == [stack EXCEPT ![Len(stack)] = f]
Pop(st) == SubSeq(st, 1, Len(st) - 1)

\* `while step <= max_steps` (a variant of the code, to see that the bound on
\* the model calls rests on the loop condition)
loop_continues_inclusive(step, limit) == step <= limit

\* `if response.stop_reason == "end_turn"` (a variant of the code, to see that
\* the decision rests on the tool_use blocks)
turn_ends_on_end_turn(response, tool_calls) == response.stop_reason = "end_turn"

\* `while step < max_steps`
loop_continues(step, limit) == step < limit

\* `if not tool_calls`: the turn ends the loop
turn_ends(response, tool_calls) == Len(tool_calls) = 0

\* the string chat returns for a turn without tool calls
chat_return(response, full_text) ==
    IF response.stop_reason = "end_turn" THEN full_text
    ELSE IF full_text # "" THEN full_text ELSE "(No response)"

\* run_task returning its text followed by the outputs of its last tool
\* calls (a variant of the code, to see that the returned value is told
\* apart from one that carries tool output)
sub_return_with_outputs(f) ==
    join(<<f.full_text>> \o [i \in 1..Len(f.results) |-> f.results[i].output])

\* run_task reporting the step limit instead of the text of its last turn
\* when that turn asked for tools (a variant of the code, to see that the
\* value returned on an exhausted budget is told apart from a step-limit
\* message)
sub_return_with_step_limit(f) ==
    IF f.tool_calls # <<>> THEN STEP_LIMIT_MESSAGE
    ELSE IF \E i \in 1..Len(f.response.content) : f.response.content[i].type = "text"
    THEN f.full_text
    ELSE "(subagent returned no text)"

\* the value run_task returns after its loop
sub_return(f) ==
    IF \E i \in 1..Len(f.response.content) : f.response.content[i].type = "text"
    THEN f.full_text
    ELSE "(subagent returned no text)"

\* the output of the tool call a frame is at joins its results
record_output(f, out) ==
    LET tc == f.tool_calls[f.idx]
    IN  [f EXCEPT !.results = Append(@, Entry(tc.name, tc.input, out)),
                  !.idx = @ + 1]

\* a nested loop hands `out` to the loop that dispatched it
deliver(st, out) == [st EXCEPT ![Len(st)] = record_output(st[Len(st)], out)]

\* main() reads a line; v1 .. v4 append it to history before the call
UserInput ==
    /\ ~Running
    /\ inputs > 0
    /\ inputs' = inputs - 1
    /\ \E text \in UserInputs :
        /\ history' = IF ver = "v0" THEN history ELSE Append(history, UserMsg(text))
        /\ stack' = <<[Frame(IF ver = "v0" THEN "chat" ELSE "agent_loop", "", <<>>,
                             TOOLS(ver)) EXCEPT !.prompt = text]>>
    /\ result' = NoRun
    /\ UNCHANGED <<ver, max_steps, stub, TODO, files, todoCall,
                   last_response, raw_reply, skillLoad>>

\* chat / agent_loop up to the loop: the system message is put first
\* unless history has one; chat then appends the prompt
Enter ==
    /\ Running
    /\ Top.pc = "start"
    /\ history' = IF Top.fn = "chat"
                  THEN Append(with_system(history), UserMsg(Top.prompt))
                  ELSE with_system(history)
    /\ stack' = SetTop([Top EXCEPT !.pc = "loop"])
    /\ UNCHANGED <<ver, max_steps, stub, inputs, TODO, files, result, todoCall,
                   last_response, raw_reply, skillLoad>>

\* the loop at the top of the stack is about to call the model
calls_model == Running /\ Top.pc = "loop" /\ loop_continues(Top.step, max_steps)

\* the list the loop at the top of the stack passes as messages
loop_messages == IF Len(stack) = 1 THEN history ELSE Top.messages

\* what llm.invoke is handed by that call: the agents never set system_info
langchain_messages == build_langchain_messages(loop_messages, Top.prompt, "")

\* one pass of the loop up to the dispatch: the model call, the partition
\* of the blocks, and the return when the turn has no tool call
ModelTurn ==
    /\ Running
    /\ Top.pc = "loop"
    /\ loop_continues(Top.step, max_steps)
    /\ \E raw \in Replies(stub) :
        LET response == chat_with_tools(raw)
            tool_calls == tool_calls_of(response.content)
            full_text == join(texts_of(response.content))
            f == [Top EXCEPT !.step = @ + 1, !.calls = @ + 1,
                             !.response = response, !.full_text = full_text,
                             !.tool_calls = tool_calls, !.idx = 1,
                             !.results = <<>>, !.dispatched = <<>>]
            ends == turn_ends(response, tool_calls)
        IN  /\ last_response' = response
            /\ IF f.fn = "chat"
               THEN /\ history' =
                        IF full_text # "" THEN Append(history, AssistantMsg(full_text))
                        ELSE IF Len(tool_calls) > 0
                        THEN Append(history, AssistantMsg("(Executing tools...)"))
                        ELSE history
                    /\ IF ends
                       THEN /\ stack' = <<>>
                            /\ result' = Result("text", chat_return(response, full_text),
                                                "final_turn", f.calls, full_text)
                       ELSE /\ stack' = SetTop([f EXCEPT !.pc = "dispatch"])
                            /\ UNCHANGED result
               ELSE IF f.fn = "agent_loop"
               THEN IF ends
                    THEN /\ history' = Append(history, AssistantMsg(full_text))
                         /\ stack' = <<>>
                         /\ result' = Result("history", "", "final_turn", f.calls,
                                             full_text)
                    ELSE /\ stack' = SetTop([f EXCEPT !.pc = "dispatch"])
                         /\ UNCHANGED <<history, result>>
               ELSE \* run_task
                    /\ IF ends
                       THEN stack' = deliver(Pop(stack), sub_return(f))
                       ELSE stack' = SetTop([f EXCEPT !.pc = "dispatch"])
                    /\ UNCHANGED <<history, result>>
    /\ UNCHANGED <<ver, max_steps, stub, inputs, TODO, files, todoCall, raw_reply, skillLoad>>

\* an exception leaves execute_tool in the top loop of st: the `try` of
\* v4's Task branch turns one that leaves a subagent into its result, any
\* other reaches main()
unwind(st, exc) ==
    IF ver = "v4" /\ Len(st) >= 2
    THEN [stack |-> deliver(Pop(st), "Error: " \o exc), result |-> result]
    ELSE [stack |-> <<>>,
          result |-> Result("raised", exc, "exception", st[1].calls, "")]

\* run_task starting from a copy of the parent's history (a variant of the
\* code, to see that the isolation of the subagent rests on its fresh list)
sub_frame_with_history(args) ==
    [Frame("run_task", args.agent_type,
           history \o <<Msg("system", "system", "SUBSYSTEM " \o args.agent_type, <<>>),
                        UserMsg(args.prompt)>>,
           get_tools_for_agent(args.agent_type))
     EXCEPT !.pc = "loop", !.prompt = args.prompt, !.todo_before = TODO]

\* run_task from its loop on: a new loop with a history of its own
sub_frame(args) ==
    [Frame("run_task", args.agent_type,
           <<Msg("system", "system", "SUBSYSTEM " \o args.agent_type, <<>>),
             UserMsg(args.prompt)>>,
           get_tools_for_agent(args.agent_type))
     EXCEPT !.pc = "loop", !.prompt = args.prompt, !.todo_before = TODO]

\* the dispatch of the next tool call of the step
ExecuteTool ==
    /\ Running
    /\ Top.pc = "dispatch"
    /\ Top.idx <= Len(Top.tool_calls)
    /\ LET tc == Top.tool_calls[Top.idx]
           called == [Top EXCEPT !.dispatched = Append(@, tc)]
           out == execute_tool(ver, tc.name, tc.input, files, TODO)
       IN  IF Top.fn = "chat"
           THEN IF tc.name = "bash"
                THEN IF tc.input.kind = "str"
                     THEN \* tc.input.get: 'str' object has no attribute 'get'
                          /\ stack' = unwind(stack, "no attribute 'get'").stack
                          /\ result' = unwind(stack, "no attribute 'get'").result
                          /\ UNCHANGED <<TODO, files>>
                     ELSE IF "command" \in tc.input.keys /\ tc.input.command # ""
                     THEN /\ stack' = SetTop(record_output(called,
                                                 run_bash(tc.input.command)))
                          /\ UNCHANGED <<TODO, files, result>>
                     ELSE /\ stack' = SetTop([Top EXCEPT !.idx = @ + 1])
                          /\ UNCHANGED <<TODO, files, result>>
                ELSE /\ stack' = SetTop([Top EXCEPT !.idx = @ + 1])
                     /\ UNCHANGED <<TODO, files, result>>
           ELSE IF out.kind = "return"
           THEN /\ stack' = SetTop(record_output(called, out.text))
                /\ TODO' = out.todo
                /\ files' = out.files
                /\ UNCHANGED result
           ELSE IF out.kind = "raise"
           THEN /\ stack' = unwind(SetTop(called), out.text).stack
                /\ result' = unwind(SetTop(called), out.text).result
                /\ UNCHANGED <<TODO, files>>
           ELSE \* spawn
                IF Len(stack) - 1 >= MaxDepth
                THEN IF ver = "v4"
                     THEN /\ stack' = SetTop(record_output(called,
                                 "Error: maximum recursion depth exceeded"))
                          /\ UNCHANGED <<TODO, files, result>>
                     ELSE /\ stack' = <<>>
                          /\ result' = Result("raised",
                                 "maximum recursion depth exceeded", "exception",
                                 stack[1].calls, "")
                          /\ UNCHANGED <<TODO, files>>
                ELSE /\ stack' = Append(SetTop(called), sub_frame(tc.input))
                     /\ UNCHANGED <<TODO, files, result>>
    /\ UNCHANGED <<ver, max_steps, stub, inputs, history, todoCall,
                   last_response, raw_reply, skillLoad>>

\* after the last tool call of the step: the messages of the step join the
\* history of the loop
EndStep ==
    /\ Running
    /\ Top.pc = "dispatch"
    /\ Top.idx > Len(Top.tool_calls)
    /\ IF Top.fn = "chat"
       THEN /\ history' = Append(history, IF Len(Top.results) > 0
                                          THEN ResultsMsg(Top.results)
                                          ELSE NoOutputMsg)
            /\ stack' = SetTop([Top EXCEPT !.pc = "loop"])
       ELSE IF Top.fn = "agent_loop"
       THEN /\ history' = history \o <<AssistantMsg(Top.full_text),
                                       ResultsMsg(Top.results)>>
            /\ stack' = SetTop([Top EXCEPT !.pc = "loop"])
       ELSE /\ stack' = SetTop([Top EXCEPT
                            !.pc = "loop",
                            !.messages = @ \o <<AssistantMsg(Top.full_text),
                                                SubResultsMsg(Top.agent_type,
                                                              Top.results)>>])
            /\ UNCHANGED history
    /\ UNCHANGED <<ver, max_steps, stub, inputs, TODO, files, result, todoCall,
                   last_response, raw_reply, skillLoad>>

\* the loop condition fails: the budget is used up
Exhaust ==
    /\ Running
    /\ Top.pc = "loop"
    /\ ~loop_continues(Top.step, max_steps)
    /\ IF Top.fn = "chat"
       THEN /\ stack' = <<>>
            /\ result' = Result("text", STEP_LIMIT_MESSAGE, "step_limit", Top.calls,
                                Top.full_text)
       ELSE IF Top.fn = "agent_loop"
       THEN /\ stack' = <<>>
            /\ result' = Result("None", "", "step_limit", Top.calls, Top.full_text)
       ELSE IF Top.step = 0
       THEN \* `response` was never assigned: UnboundLocalError
            /\ stack' = unwind(stack, "local variable 'response' referenced").stack
            /\ result' = unwind(stack, "local variable 'response' referenced").result
       ELSE /\ stack' = deliver(Pop(stack), sub_return(Top))
            /\ UNCHANGED result
    /\ UNCHANGED <<ver, max_steps, stub, inputs, history, TODO, files, todoCall,
                   last_response, raw_reply, skillLoad>>

Next == UserInput \/ Enter \/ ModelTurn \/ ExecuteTool \/ EndStep \/ Exhaust

InitWith(s, n) ==
    /\ ver \in Versions
    /\ max_steps \in 0..MaxSteps
    /\ stub = s
    /\ inputs = n
    /\ history = <<>>
    /\ TODO = <<>>
    /\ files = InitFiles
    /\ stack = <<>>
    /\ result = NoRun
    /\ last_response = NoResponse
    /\ todoCall = NoTodoCall
    /\ raw_reply = NoReply
    /\ skillLoad = [NoSkillLoad EXCEPT !.phase = "loaded", !.skills = SKILLS]

\* one run of each program, on every reply of the stub
Init == InitWith("core", 1)
Spec == Init /\ [][Next]_vars

\* one session of main(): up to MaxInputs lines read, one run each
SpecRepl == InitWith("repl", MaxInputs) /\ [][Next]_vars

\* one run with replies that spawn subagents
SpecSub == InitWith("sub", 1) /\ [][Next]_vars

\* one run with replies that ask for denylisted commands, in the loop of
\* main() and in the loops of subagents
SpecShell == InitWith("shell", 1) /\ [][Next]_vars

\* one session of main() with replies that call Skill
SpecSkillRun == InitWith("skills", MaxInputs) /\ [][Next]_vars

\* one run with replies in which subagents of type explore call tools
\* outside their list
SpecFilter == InitWith("filter", 1) /\ [][Next]_vars

\* the history after k inputs that the model answered with the text "done"
RECURSIVE Exchanges(_)
Exchanges(k) ==
    IF k = 0 THEN <<>>
    ELSE <<UserMsg("task"), AssistantMsg("done")>> \o Exchanges(k - 1)

\* one more input of a session of main() in which up to MaxHistory inputs
\* have been answered
InitLong ==
    /\ ver \in Versions
    /\ skillLoad = [NoSkillLoad EXCEPT !.phase = "loaded", !.skills = SKILLS]
    /\ max_steps \in 0..MaxSteps
    /\ stub = "repl"
    /\ inputs = 1
    /\ history \in {IF k = 0 THEN <<>> ELSE <<SystemMsg>> \o Exchanges(k) :
                      k \in 0..MaxHistory}
    /\ TODO = <<>>
    /\ files = InitFiles
    /\ stack = <<>>
    /\ result = NoRun
    /\ last_response = NoResponse
    /\ todoCall = NoTodoCall
    /\ raw_reply = NoReply

SpecLong == InitLong /\ [][Next]_vars

\* one session of main() with replies that write the Todo list, well and
\* badly, among other tool calls
SpecPersist == InitWith("todo", MaxInputs) /\ [][Next]_vars

\* one run with replies that edit a.txt and read it with a limit
SpecFileOps == InitWith("fileops", 1) /\ [][Next]_vars

\* one run with subagents whose turns carry text with their tool calls, or
\* no block at all
SpecSubText == InitWith("subtext", 1) /\ [][Next]_vars

\* one run in which model calls may fail, in the loop of main() and in the
\* loops of subagents
SpecFailure == InitWith("failure", 1) /\ [][Next]_vars

\* one run with replies that call the file tools
SpecFiles == InitWith("files", 1) /\ [][Next]_vars

\* one run with replies whose subagents write the Todo list
SpecShared == InitWith("shared", 1) /\ [][Next]_vars

\* one run with replies that spawn subagents; the interpreter runs a loop
\* it has entered to its end: every model call and every tool dispatch
\* returns (run_bash has a timeout) and nothing else is scheduled
RunStep == Enter \/ ModelTurn \/ ExecuteTool \/ EndStep \/ Exhaust
SpecLive == InitWith("live", 1) /\ [][Next]_vars /\ WF_vars(RunStep)

(***************************************************************************)
(* TodoManager.update on its own: a call with its request, then its        *)
(* return.                                                                 *)
(***************************************************************************)
\* n completed items
RECURSIVE Pad(_)
Pad(n) ==
    IF n = 0 THEN <<>> ELSE <<Item("pad", "completed", "padding")>> \o Pad(n - 1)

TodoItems ==
    { Item(" b ", "in_progress", "doing b"),
      Item("c", "Completed", "doing c"),
      Item(" ", "pending", "doing"),
      Item("e", "done", "doing e"),
      Item("f", "pending", ""),
      [Item("g", "", "doing g") EXCEPT !.has = {"content", "activeForm"}] }

RECURSIVE Lists(_, _)
Lists(S, n) ==
    IF n = 0 THEN {<<>>}
    ELSE Lists(S, n - 1) \cup {Append(l, x) : l \in Lists(S, n - 1), x \in S}

\* the requests: up to MaxPrefix items of any kind, and lists that reach
\* MaxTodos: up to MaxPrefix good items, then MaxTodos - 1 items of padding
TodoRequests ==
    Lists(TodoItems, MaxPrefix)
        \cup {prefix \o Pad(MaxTodos - 1) :
                prefix \in Lists({Item("a", "pending", "doing a"),
                                  Item(" b ", "in_progress", "doing b")}, MaxPrefix)}

TodoCall ==
    /\ ~todoCall.active
    /\ \E items \in TodoRequests :
        todoCall' = [active |-> TRUE, items |-> items, raised |-> FALSE, text |-> ""]
    /\ UNCHANGED <<ver, max_steps, stub, inputs, history, TODO, files, stack, result,
                   last_response, raw_reply, skillLoad>>

TodoReturn ==
    /\ todoCall.active
    /\ LET r == update(TODO, todoCall.items)
       IN  /\ TODO' = r.items
           /\ todoCall' = [active |-> FALSE, items |-> <<>>, raised |-> r.raised,
                           text |-> r.text]
    /\ UNCHANGED <<ver, max_steps, stub, inputs, history, files, stack, result,
                   last_response, raw_reply, skillLoad>>

NextTodo == TodoCall \/ TodoReturn

InitTodo ==
    /\ ver = "v2"
    /\ max_steps = 0
    /\ stub = "core"
    /\ inputs = 0
    /\ history = <<>>
    /\ TODO = <<>>
    /\ files = InitFiles
    /\ stack = <<>>
    /\ result = NoRun
    /\ last_response = NoResponse
    /\ todoCall = NoTodoCall
    /\ raw_reply = NoReply
    /\ skillLoad = NoSkillLoad

SpecTodo == InitTodo /\ [][NextTodo]_vars

(***************************************************************************)
(* chat_with_tools on its own: one call per reply of a bounded set.        *)
(***************************************************************************)
\* an entry of a tool_calls list: its JSON text and what json.loads gives
NormEntry(src, tc) == [src |-> src, tc |-> tc]

NormEntries ==
    { NormEntry("{\"id\":\"1\",\"function\":{\"name\":\"bash\",\"arguments\":\"{\\\"command\\\":\\\"ls\\\"}\"}}",
                ToolCall({"id", "function"}, {"name", "arguments"}, "1", "bash",
                         TRUE, TRUE, "", BashArgs("ls"))),
      NormEntry("{\"id\":\"2\",\"function\":{\"name\":\"bash\",\"arguments\":\"ls\"}}",
                ToolCall({"id", "function"}, {"name", "arguments"}, "2", "bash",
                         TRUE, FALSE, "ls", EmptyInput)),
      NormEntry("{\"id\":\"3\",\"type\":\"function\"}",
                ToolCall({"id", "type"}, {}, "3", "", FALSE, FALSE, "", EmptyInput)),
      NormEntry("{\"id\":\"4\",\"function\":{\"name\":\"bash\"}}",
                ToolCall({"id", "function"}, {"name"}, "4", "bash",
                         FALSE, FALSE, "", EmptyInput)),
      NormEntry("{\"id\":\"5\",\"function\":{\"arguments\":\"{}\"}}",
                ToolCall({"id", "function"}, {"arguments"}, "5", "",
                         TRUE, TRUE, "", EmptyInput)),
      NormEntry("{\"function\":{\"name\":\"read_file\",\"arguments\":{\"path\":\"a.txt\"}}}",
                ToolCall({"function"}, {"name", "arguments"}, "", "read_file",
                         FALSE, FALSE, "", ReadArgs("a.txt"))) }

\* the JSON texts of the entries, separated by commas
RECURSIVE NormSrc(_)
NormSrc(entries) ==
    IF Len(entries) = 0 THEN ""
    ELSE IF Len(entries) = 1 THEN entries[1].src
    ELSE entries[1].src \o "," \o NormSrc(Tail(entries))


\* the replies: objects and lists of up to MaxPrefix entries, an object
\* without tool_calls, plain text, and a failed call
NormReplies ==
    LET
        NormCalls(entries) == [i \in 1..Len(entries) |-> entries[i].tc]
        \* what self.chat returns for the object {"content": text, "tool_calls": entries}
        NormObject(text, entries) ==
            ReplyToolCalls("{\"content\":\"" \o text \o "\",\"tool_calls\":[" \o NormSrc(entries) \o "]}",
                           text, NormCalls(entries))

        \* what self.chat returns for the list of entries
        NormList(entries) == ReplyLegacy("[" \o NormSrc(entries) \o "]", NormCalls(entries))
    IN
        {NormObject(text, entries) : text \in {"", "hi"}, entries \in Lists(NormEntries, MaxPrefix)}
            \cup {NormList(entries) : entries \in Lists(NormEntries, MaxPrefix)}
            \cup {[success |-> TRUE, content |-> "{\"a\":1}",
                   json |-> [shape |-> "dict", has_tool_calls |-> FALSE, text |-> "",
                             calls |-> <<>>]],
                  ReplyText("hello"), ReplyText(""), ReplyFailure("timeout")}

\* self.chat has returned
NormCall ==
    /\ raw_reply = NoReply \/ last_response # NoResponse
    /\ raw_reply' \in NormReplies
    /\ last_response' = NoResponse
    /\ UNCHANGED <<ver, max_steps, stub, inputs, history, TODO, files, stack, result,
                   todoCall, skillLoad>>

\* chat_with_tools returns its Response
NormReturn ==
    /\ raw_reply # NoReply
    /\ last_response = NoResponse
    /\ last_response' = chat_with_tools(raw_reply)
    /\ UNCHANGED <<ver, max_steps, stub, inputs, history, TODO, files, stack, result,
                   todoCall, raw_reply, skillLoad>>

NextNorm == NormCall \/ NormReturn


SpecNorm == InitTodo /\ [][NextNorm]_vars

(***************************************************************************)
(* SkillLoader on its own: a skills directory of up to MaxPrefix entries   *)
(* is loaded, then asked for its summaries and for skills by name.         *)
(***************************************************************************)
\* what a skills directory may hold: the name of the entry, the file in it
\* ("" when the entry is itself a file), its text, and what the manifest
\* declares (ok is FALSE when it is no skill package)
SkillEntry(dir, file, text, ok, name, description, body) ==
    [dir |-> dir, file |-> file, text |-> text, ok |-> ok, name |-> name,
     description |-> description, body |-> body]

SkillEntries ==
    { SkillEntry("pdf", "SKILL.md", PdfSkillMd, TRUE, "pdf", "handle pdfs", "Use pdftotext."),
      SkillEntry("xls", "SKILL.md",
                 "---\nname: \"xls\"\ndescription: 'sheets: read'\n---\n  Use xlsx.  \n",
                 TRUE, "xls", "sheets: read", "Use xlsx."),
      SkillEntry("pdf2", "SKILL.md",
                 "---\nname: pdf\ndescription: merge pdfs\n---\nUse pdfunite.",
                 TRUE, "pdf", "merge pdfs", "Use pdfunite."),
      SkillEntry("nodesc", "SKILL.md", "---\nname: nodesc\n---\nbody one", FALSE, "", "", ""),
      SkillEntry("noname", "SKILL.md", "---\ndescription: no name\n---\nbody two",
                 FALSE, "", "", ""),
      SkillEntry("nohdr", "SKILL.md", "name: nohdr\ndescription: no header\n\nbody three",
                 FALSE, "", "", ""),
      SkillEntry("nomd", "README.md", "name: nomd\ndescription: no manifest", FALSE, "", "", ""),
      SkillEntry("notes.txt", "", "---\nname: notes\ndescription: a file\n---\nbody four",
                 FALSE, "", "", "") }

\* the path of the file of the entry
skill_entry_path(e) ==
    IF e.file = "" THEN Append(SKILLS_DIR, e.dir)
    ELSE SKILLS_DIR \o <<e.dir, e.file>>

\* the files of a skills directory that holds the entries
skill_files(entries) ==
    [q \in {skill_entry_path(e) : e \in entries} |->
        (CHOOSE e \in entries : skill_entry_path(e) = q).text]

\* the entries now under WORKDIR/skills
entries_of(fs) == {e \in SkillEntries : skill_entry_path(e) \in DOMAIN fs}

\* SkillLoader(SKILLS_DIR): load_skills, in an order of iterdir()
SkillLoad ==
    /\ skillLoad.phase = "start"
    /\ \E order \in Orders(skill_dirs(files)) :
        skillLoad' = [phase |-> "loaded", skills |-> load_skills(files, order, <<>>),
                      query |-> "", text |-> ""]
    /\ UNCHANGED <<ver, max_steps, stub, inputs, history, TODO, files, stack, result,
                   last_response, todoCall, raw_reply>>

\* get_descriptions()
SkillSummaries ==
    /\ skillLoad.phase \in {"loaded", "answered"}
    /\ skillLoad' = [skillLoad EXCEPT !.phase = "answered", !.query = "",
                                      !.text = get_descriptions(skillLoad.skills)]
    /\ UNCHANGED <<ver, max_steps, stub, inputs, history, TODO, files, stack, result,
                   last_response, todoCall, raw_reply>>

\* run_skill(name) on the loader
SkillGet ==
    /\ skillLoad.phase \in {"loaded", "answered"}
    /\ \E name \in {e.dir : e \in SkillEntries} \cup {"notes"} :
        skillLoad' = [skillLoad EXCEPT !.phase = "answered", !.query = name,
                          !.text = run_skill_with(skillLoad.skills, files, name)]
    /\ UNCHANGED <<ver, max_steps, stub, inputs, history, TODO, files, stack, result,
                   last_response, todoCall, raw_reply>>

NextSkills == SkillLoad \/ SkillSummaries \/ SkillGet

InitSkills ==
    /\ ver = "v4"
    /\ max_steps = 0
    /\ stub = "core"
    /\ inputs = 0
    /\ history = <<>>
    /\ TODO = <<>>
    /\ files \in {skill_files(entries) :
                    entries \in {E \in SUBSET SkillEntries : Cardinality(E) <= MaxPrefix}}
    /\ stack = <<>>
    /\ result = NoRun
    /\ last_response = NoResponse
    /\ todoCall = NoTodoCall
    /\ raw_reply = NoReply
    /\ skillLoad = [NoSkillLoad EXCEPT !.phase = "start"]

SpecSkills == InitSkills /\ [][NextSkills]_vars

(***************************************************************************)
(* Properties.                                                             *)
(***************************************************************************)
IsPrefix(a, b) == Len(a) <= Len(b) /\ SubSeq(b, 1, Len(a)) = a
IsError(out) == Len(out) >= 7 /\ SubSeq(out, 1, 7) = "Error: "
Last(seq) == seq[Len(seq)]
\* the history the running loop appends to
LoopHistory == IF Top.fn = "run_task" THEN Top.messages ELSE history
\* the steps of the run that had tool calls, by the messages they left
ToolSteps == Cardinality({i \in 1..Len(history) : history[i].kind \in {"results", "error"}})

\* C1: whatever the model replies and whatever max_steps >= 0 is, every
\* running loop, the main one and a subagent's, has made one model call per
\* iteration and at most max_steps of them, a finished run made at most
\* max_steps, and a run that has started ends.
C1_BoundedAndTerminates ==
    /\ [](\A i \in 1..Len(stack) :
            stack[i].calls = stack[i].step /\ stack[i].calls <= max_steps)
    /\ [](result.kind # "none" => result.calls <= max_steps)
    /\ (Running ~> ~Running)

\* a subagent has used its whole budget while its parent is on its last step
C1_Witness ==
    /\ Len(stack) = 2
    /\ stack[2].fn = "run_task"
    /\ max_steps = MaxSteps
    /\ stack[2].calls = max_steps
    /\ stack[1].calls = max_steps

\* C2: a run that ends because the budget is used up, after a tool call was
\* requested on each step, returns the step-limit message as a text.
C2_StepLimitMessage ==
    (result.how = "step_limit" /\ result.calls >= 1)
        => (result.kind = "text" /\ result.text = STEP_LIMIT_MESSAGE)

C4_ReturnsFinalText ==
    result.how = "final_turn"
        => /\ result.calls = ToolSteps + 1
           /\ result.kind = "text"
           /\ result.text = result.full_text

\* C5: when a step with tool calls is over, the dispatcher was called once
\* per tool_use block in the order of the turn, and the results message of
\* the step holds one entry per block in that order.
C5_OneResultPerBlock ==
    (Running /\ Top.pc = "loop" /\ Top.step > 0)
        => /\ Top.dispatched = Top.tool_calls
           /\ Len(Top.results) = Len(Top.tool_calls)
           /\ \A i \in 1..Len(Top.tool_calls) :
                /\ Top.results[i].name = Top.tool_calls[i].name
                /\ Top.results[i].input = Top.tool_calls[i].input
           /\ Last(LoopHistory) = ResultsMsg(Top.results)

\* C6: every operation leaves the history it found as a prefix of the
\* history it leaves.
C6_AppendOnly == [][IsPrefix(history, history')]_vars

\* C7: no exception leaves the dispatch of a tool call: no run ends with an
\* exception.
C7_DispatchNeverRaises == result.how # "exception"

\* the failures of C8: the command times out, the path leaves the workspace,
\* the file does not exist, the Todo list is invalid
C8_Fails(tc) ==
    /\ tc.input.kind = "dict"
    /\ \/ /\ tc.name = "bash"
          /\ "command" \in tc.input.keys
          /\ shell(tc.input.command).timeout
       \/ /\ ver # "v0"
          /\ tc.name = "read_file"
          /\ "path" \in tc.input.keys
          /\ \/ ~safe_path(tc.input.path).ok
             \/ safe_path(tc.input.path).path \notin DOMAIN files
       \/ /\ ver \in {"v2", "v3", "v4"}
          /\ tc.name = "TodoWrite"
          /\ "items" \in tc.input.keys
          /\ update(TODO, tc.input.items).raised

\* C8: the dispatch of a tool call that fails (timeout, path outside the
\* workspace, file not found, invalid Todo list) ends no loop and raises
\* nothing: its "Error: ..." text joins the results of the step as the entry
\* of that call; and the end of a step puts these results last in the
\* history and takes the loop back to its condition.
C8_FailureIsAResult ==
    [][/\ (Running /\ Top.pc = "dispatch" /\ Top.idx <= Len(Top.tool_calls)
                /\ C8_Fails(Top.tool_calls[Top.idx]))
            => /\ Len(stack') = Len(stack)
               /\ result' = result
               /\ TODO' = TODO
               /\ Top'.pc = "dispatch"
               /\ Top'.idx = Top.idx + 1
               /\ Len(Top'.results) = Len(Top.results) + 1
               /\ IsPrefix(Top.results, Top'.results)
               /\ Last(Top'.results).name = Top.tool_calls[Top.idx].name
               /\ Last(Top'.results).input = Top.tool_calls[Top.idx].input
               /\ IsError(Last(Top'.results).output)
       /\ (Running /\ Top.pc = "dispatch" /\ Top.idx > Len(Top.tool_calls)
                /\ Len(Top.results) > 0)
            => /\ Len(stack') = Len(stack)
               /\ result' = result
               /\ Top'.pc = "loop"
               /\ Last(LoopHistory') = ResultsMsg(Top.results)]_vars

\* a step whose four tool calls failed is over, its four errors are the last
\* message of the history and the budget allows another model call
C8_Witness ==
    /\ Running
    /\ Top.pc = "loop"
    /\ loop_continues(Top.step, max_steps)
    /\ Len(Top.results) = 4
    /\ Top.results[1].output = "Error: Path escapes workspace: ../../etc/passwd"
    /\ Top.results[2].output = "Error: Timeout"
    /\ Top.results[3].output = "Error: Only one task can be in_progress at a time"
    /\ IsError(Top.results[4].output)
    /\ Last(history) = ResultsMsg(Top.results)

\* the fields of an item as update reads them
C9_content(item) == strip(item_get(item, "content", ""))
C9_activeForm(item) == strip(item_get(item, "activeForm", ""))
C9_status(item) == item_get(item, "status", "pending")

\* a list that breaks a rule, statuses compared in lower case
C9_Invalid(items) ==
    \/ Len(items) > MaxTodos
    \/ Cardinality({i \in 1..Len(items) : lower(C9_status(items[i])) = "in_progress"}) > 1
    \/ \E i \in 1..Len(items) :
        \/ C9_content(items[i]) = ""
        \/ C9_activeForm(items[i]) = ""
        \/ lower(C9_status(items[i])) \notin Statuses

\* a list that breaks a rule, statuses compared as they were sent
C9_InvalidAsSent(items) ==
    \/ Len(items) > MaxTodos
    \/ Cardinality({i \in 1..Len(items) : C9_status(items[i]) = "in_progress"}) > 1
    \/ \E i \in 1..Len(items) :
        \/ C9_content(items[i]) = ""
        \/ C9_activeForm(items[i]) = ""
        \/ C9_status(items[i]) \notin Statuses

C10_StoredListInvariant ==
    /\ Len(TODO) <= MaxTodos
    /\ Cardinality({i \in 1..Len(TODO) : TODO[i].status = "in_progress"}) <= 1
    /\ \A i \in 1..Len(TODO) :
        /\ TODO[i].content # ""
        /\ TODO[i].activeForm # ""
        /\ TODO[i].status \in Statuses

\* a full list with an item in progress, kept by a call that failed
C10_Witness ==
    /\ Len(TODO) = MaxTodos
    /\ \E i \in 1..Len(TODO) : TODO[i].status = "in_progress"
    /\ ~todoCall.active
    /\ todoCall.raised

\* the line of an item as sent: the glyph of its status, its content, and
\* its activeForm when it is in progress
C11_Line(item) ==
    LET status == lower(C9_status(item))
    IN  IF status = "completed" THEN "[x] " \o C9_content(item)
        ELSE IF status = "in_progress"
        THEN "[>] " \o C9_content(item) \o " <- " \o C9_activeForm(item)
        ELSE "[ ] " \o C9_content(item)

C11_Summary(items, compare(_)) ==
    "(" \o ToString(Cardinality({i \in 1..Len(items) :
                                    compare(C9_status(items[i])) = "completed"}))
        \o "/" \o ToString(Len(items)) \o " completed)"

\* the lines of the items, in the order of the list
C11_ItemLines(items) == [i \in 1..Len(items) |-> C11_Line(items[i])]

StartsWith(s, t) == Len(s) >= Len(t) /\ SubSeq(s, 1, Len(t)) = t
EndsWith(s, t) == Len(s) >= Len(t) /\ SubSeq(s, Len(s) - Len(t) + 1, Len(s)) = t

\* C11 (amended): a replace call with a list that breaks no rule (statuses
\* compared in lower case) succeeds and stores the list; when the list is
\* empty the text returned is "No todos.", otherwise it is one line per
\* item in list order with the glyph of its status, an empty line, and the
\* summary "(k/n completed)" of the k completed among the n items.
C11_ValidReplaceRenders ==
    [][(todoCall.active /\ ~todoCall'.active /\ ~C9_Invalid(todoCall.items))
            => /\ ~todoCall'.raised
               /\ Len(TODO') = Len(todoCall.items)
               /\ IF Len(todoCall.items) = 0
                  THEN todoCall'.text = "No todos."
                  ELSE todoCall'.text =
                         join(C11_ItemLines(todoCall.items)
                                \o <<"", C11_Summary(todoCall.items, lower)>>)]_vars

\* a full list, one item in progress and the others completed, was rendered
C11_Witness ==
    /\ ~todoCall.active
    /\ ~todoCall.raised
    /\ Len(TODO) = MaxTodos
    /\ StartsWith(todoCall.text, "[>] b <- doing b\n[x] pad\n")
    /\ EndsWith(todoCall.text, "[x] pad\n\n(19/20 completed)")

C11_Same(status) == status

\* C11 as stated: a replace call with at most 20 valid items, at most one of
\* them in_progress, succeeds and its text has one line per item, in list
\* order with the glyph of its status, and the summary "(k/n completed)".
C11_AsStated ==
    [][(todoCall.active /\ ~todoCall'.active /\ ~C9_InvalidAsSent(todoCall.items))
            => /\ ~todoCall'.raised
               /\ todoCall'.text \in
                    {join(C11_ItemLines(todoCall.items)
                            \o <<C11_Summary(todoCall.items, C11_Same)>>),
                     join(C11_ItemLines(todoCall.items)
                            \o <<"", C11_Summary(todoCall.items, C11_Same)>>)}]_vars

\* the steps a loop has finished
C12_Done(f) == IF f.pc = "dispatch" THEN f.step - 1 ELSE f.step

\* C12: the message list of a running subagent starts with the system
\* message of its agent type and a user message holding the prompt of the
\* Task call that spawned it, these two only at spawn, and then holds only
\* the assistant message and the results message of each step the subagent
\* itself finished: never the parent's system message, user input or
\* results messages.
C12_IsolatedMessages ==
    \A i \in 2..Len(stack) :
        LET f == stack[i]
            parent == stack[i - 1]
        IN  /\ f.fn = "run_task"
            /\ Len(f.messages) = 2 + 2 * C12_Done(f)
            /\ f.messages[1] = Msg("system", "system", "SUBSYSTEM " \o f.agent_type, <<>>)
            /\ f.messages[2] = UserMsg(parent.tool_calls[parent.idx].input.prompt)
            /\ f.agent_type = parent.tool_calls[parent.idx].input.agent_type
            /\ \A k \in 1..C12_Done(f) :
                /\ f.messages[2 * k + 1].kind = "text"
                /\ f.messages[2 * k + 1].role = "assistant"
                /\ f.messages[2 * k + 2].kind = "sub_results"
                /\ f.messages[2 * k + 2].text = f.agent_type
            /\ \A j \in 1..Len(f.messages) :
                /\ f.messages[j] # SystemMsg
                /\ f.messages[j].kind \notin {"results", "error"}
                /\ \A h \in 1..Len(history) :
                    history[h].kind \in {"system", "input", "results", "error"}
                        => f.messages[j] # history[h]

\* a subagent has finished a step of its own while the parent's history
\* holds the messages of an earlier step of the parent
C12_Witness ==
    /\ Len(stack) = 2
    /\ Len(stack[2].messages) = 4
    /\ Len(history) >= 4
    /\ stack[1].step = 2

\* C13: no subagent loop is started while a subagent loop is running: at
\* most one subagent loop is nested in the main loop.
C13_DepthAtMostOne == Len(stack) <= 2

\* a subagent loop returns to the loop that dispatched it
C14_Returns == Len(stack) >= 2 /\ Len(stack') = Len(stack) - 1

\* the value it returns: the output of the Task call in the parent's results
C14_Value == Last(Top'.results).output

\* the last model turn of the subagent that returns: the one it ends on, or
\* the last of its budget
C14_LastTurn ==
    IF Top.pc = "loop" /\ loop_continues(Top.step, max_steps)
    THEN last_response'
    ELSE Top.response

C14_HasText(response) ==
    \E i \in 1..Len(response.content) : response.content[i].type = "text"

\* the history is that of the main loop: it does not change while a
\* subagent runs, and a step of the main loop adds two messages to it
C14_ParentHistory ==
    /\ Len(stack) >= 2 => history' = history
    /\ (Len(stack) = 1 /\ Top.fn = "agent_loop" /\ Top.pc = "dispatch"
            /\ Len(stack') = 1 /\ Top'.pc = "loop")
        => /\ Len(history') = Len(history) + 2
           /\ IsPrefix(history, history')
           /\ history'[Len(history') - 1].role = "assistant"
           /\ Last(history') = ResultsMsg(Top.results)

\* C14 (amended): the value a Task dispatch returns is one string: the text
\* of the subagent's last model turn when that turn has a text block, the
\* placeholder "(subagent returned no text)" when it has none, or, in v4,
\* "Error: ..." for an exception raised in the subagent; it is made from no
\* tool output of the subagent.  The parent's history does not change while
\* the subagent runs, and a step of the parent adds its assistant message
\* and one results message.
C14_ReturnsLastText ==
    [][/\ C14_Returns =>
            \/ /\ Top.pc = "loop"
               /\ C14_HasText(C14_LastTurn)
               /\ C14_Value = join(texts_of(C14_LastTurn.content))
            \/ /\ Top.pc = "loop"
               /\ ~C14_HasText(C14_LastTurn)
               /\ C14_Value = "(subagent returned no text)"
            \/ /\ ver = "v4"
               /\ Top.pc = "dispatch"
               /\ IsError(C14_Value)
       /\ C14_ParentHistory]_vars

\* a subagent that used its budget on tool calls has returned the
\* placeholder to the first step of the main loop
C14_Witness ==
    /\ Len(stack) = 1
    /\ Top.pc = "dispatch"
    /\ Top.step = 1
    /\ Len(Top.results) = 2
    /\ Top.results[2].name = "Task"
    /\ Top.results[2].output = "(subagent returned no text)"
    /\ Len(history) = 2

\* C14 as stated: the value a Task dispatch returns is made only of the
\* text the subagent's model produced, and the parent's history gains only
\* the parent's own messages.
C14_AsStated ==
    [][/\ C14_Returns => C14_Value = join(texts_of(C14_LastTurn.content))
       /\ C14_ParentHistory]_vars

\* C15: when a subagent returns, the Todo list is the one it was spawned
\* with, and the parent's history has not changed while it ran.
C15_OnlyTheSummaryCrosses ==
    [][/\ C14_Returns => TODO' = Top.todo_before
       /\ Len(stack) >= 2 => history' = history]_vars

\* a Task call of v3 or v4 that names an agent type outside the registry
C16_UnknownType(tc) ==
    /\ ver \in {"v3", "v4"}
    /\ tc.name = "Task"
    /\ tc.input.kind = "dict"
    /\ {"description", "prompt", "agent_type"} \subseteq tc.input.keys
    /\ tc.input.agent_type \notin DOMAIN AGENT_TYPES

\* C16: the dispatch of a Task call whose agent_type is not registered
\* returns "Error: Unknown agent type '...'" as the result of the call:
\* no loop is started, no model call is made, and the history and the Todo
\* list stay as they were.
C16_UnknownAgentType ==
    [][(Running /\ Top.pc = "dispatch" /\ Top.idx <= Len(Top.tool_calls)
            /\ C16_UnknownType(Top.tool_calls[Top.idx]))
        => /\ Len(stack') = Len(stack)
           /\ Top'.idx = Top.idx + 1
           /\ Top'.calls = Top.calls
           /\ Len(Top'.results) = Len(Top.results) + 1
           /\ Last(Top'.results).name = "Task"
           /\ Last(Top'.results).output =
                "Error: Unknown agent type '"
                    \o Top.tool_calls[Top.idx].input.agent_type \o "'"
           /\ last_response' = last_response
           /\ history' = history
           /\ TODO' = TODO
           /\ result' = result]_vars

\* the error is the result of a Task call of the main loop
C16_Witness ==
    /\ Len(stack) = 1
    /\ ver \in {"v3", "v4"}
    /\ Top.pc = "dispatch"
    /\ Len(Top.results) = 1
    /\ Top.results[1].name = "Task"
    /\ Top.results[1].output = "Error: Unknown agent type 'bogus'"

\* a chat_with_tools call on its own has returned
C17_Returned == raw_reply # NoReply /\ last_response # NoResponse

\* the payload is taken for tool calls: an object with a tool_calls list, or
\* a list whose first element has a function or type key
C17_IsToolCalls(raw) ==
    /\ raw.success
    /\ \/ raw.json.shape = "dict" /\ raw.json.has_tool_calls
       \/ /\ raw.json.shape = "list"
          /\ Len(raw.json.calls) > 0
          /\ raw.json.calls[1].has \cap {"function", "type"} # {}

\* the entry has a function that lacks its name or its arguments
C17_Malformed(tc) ==
    "function" \in tc.has /\ ~({"name", "arguments"} \subseteq tc.fhas)

\* interpreting the payload fails: it is no JSON, or an entry is malformed
C17_Fails(raw) ==
    /\ raw.success
    /\ \/ raw.json.shape = "none"
       \/ /\ C17_IsToolCalls(raw)
          /\ \E i \in 1..Len(raw.json.calls) : C17_Malformed(raw.json.calls[i])

C17_Valid(response) ==
    /\ response.stop_reason \in {"end_turn", "tool_use"}
    /\ \A i \in 1..Len(response.content) :
         response.content[i].type \in {"text", "tool_use"}

\* C17: chat_with_tools returns a Response of text and tool_use blocks with
\* stop_reason end_turn or tool_use, and when interpreting the payload fails
\* its content is the single text block of the raw content.
C17_FailureIsOneTextBlock ==
    C17_Returned =>
        /\ C17_Valid(last_response)
        /\ C17_Fails(raw_reply) =>
             last_response.content = <<TextBlock(raw_reply.content)>>

\* every entry of the list has a function with name and arguments
C18_WellFormed(raw) ==
    \A i \in 1..Len(raw.json.calls) :
        /\ "function" \in raw.json.calls[i].has
        /\ {"name", "arguments"} \subseteq raw.json.calls[i].fhas

\* the tool_use block the claim gives for an entry
C18_Block(tc) ==
    ToolUseBlock(IF "id" \in tc.has THEN tc.id ELSE "call_1", tc.name,
                 IF tc.args_is_str /\ ~tc.args_parse THEN RawInput(tc.args_raw)
                 ELSE tc.args)

C18_IsObject(raw) ==
    raw.success /\ raw.json.shape = "dict" /\ raw.json.has_tool_calls

\* the reply {"tool_calls":[{"id":"1","function":{"name":"bash",
\* "arguments":"{\"command\":\"ls\"}"}}]}
C18_Example(raw) ==
    /\ C18_IsObject(raw)
    /\ raw.json.text = ""
    /\ Len(raw.json.calls) = 1
    /\ raw.json.calls[1].id = "1"
    /\ raw.json.calls[1].name = "bash"
    /\ C18_WellFormed(raw)

C19_Escaping == {"../../etc/passwd", "/etc/passwd", "sub/../../etc/passwd"}

\* a call of a file tool with its arguments
C19_FileCall(tc) ==
    /\ tc.name \in {"read_file", "write_file", "edit_file"}
    /\ tc.input.kind = "dict"
    /\ "path" \in tc.input.keys
    /\ tc.name = "write_file" => "content" \in tc.input.keys
    /\ tc.name = "edit_file" => {"old_text", "new_text"} \subseteq tc.input.keys

\* C19: the dispatch of read_file, write_file or edit_file on a path that
\* resolves outside the workspace root gives "Error: Path escapes
\* workspace: <path>" as the result of the call and leaves every file as it
\* was.
C19_EscapingPathRejected ==
    [][(Running /\ ver # "v0" /\ Top.pc = "dispatch"
            /\ Top.idx <= Len(Top.tool_calls)
            /\ C19_FileCall(Top.tool_calls[Top.idx])
            /\ Top.tool_calls[Top.idx].input.path \in C19_Escaping)
        => /\ files' = files
           /\ Len(Top'.results) = Len(Top.results) + 1
           /\ Last(Top'.results).output =
                "Error: Path escapes workspace: " \o Top.tool_calls[Top.idx].input.path]_vars

\* a write outside the workspace was asked for and rejected
C19_Witness ==
    /\ Running
    /\ Len(Top.results) = 1
    /\ Top.results[1].name = "write_file"
    /\ Top.results[1].output = "Error: Path escapes workspace: /etc/passwd"
    /\ files = InitFiles

\* the commands of the replies that contain a pattern of the denylist
C20_Denylisted ==
    {"echo x; rm -rf /", "echo x; sudo ls", "echo shutdown", "echo x && reboot"}

\* the result recorded for the call is the error, not what the shell prints
C20_Blocked(entry) ==
    (entry.name = "bash" /\ entry.input.command \in C20_Denylisted)
        => entry.output = "Error: Dangerous command blocked"

\* C20: in the loop of main() and in every subagent loop, of every program,
\* the result of a bash call whose command contains "rm -rf /", "sudo",
\* "shutdown" or "reboot" is "Error: Dangerous command blocked": the command
\* is not run.
C20_DenylistedNeverRuns ==
    \A i \in 1..Len(stack) : \A j \in 1..Len(stack[i].results) :
        C20_Blocked(stack[i].results[j])

\* the four commands were blocked and the fifth was run, in a subagent
C20_Witness ==
    /\ Len(stack) = 2
    /\ Len(Top.results) >= 5
    /\ \A j \in 1..4 : /\ Top.results[j].input.command \in C20_Denylisted
                       /\ Top.results[j].output = "Error: Dangerous command blocked"
    /\ Top.results[5].output = "hi"

\* the tool names each program has a handler for
C21_Handlers(v) ==
    CASE v = "v0" -> {"bash"}
      [] v = "v1" -> {"bash", "read_file", "write_file", "edit_file"}
      [] v = "v2" -> {"bash", "read_file", "write_file", "edit_file", "TodoWrite"}
      [] v = "v3" -> {"bash", "read_file", "write_file", "edit_file", "TodoWrite",
                      "Task"}
      [] OTHER    -> {"bash", "read_file", "write_file", "edit_file", "TodoWrite",
                      "Task", "Skill"}

\* C21: the dispatch of a tool call whose name has no handler appends the
\* entry "Unknown tool: <name>" to the results of the step, changes neither
\* the Todo list nor the files nor the history, and the loop goes on.
C21_UnknownToolIsAResult ==
    [][(Running /\ Top.pc = "dispatch" /\ Top.idx <= Len(Top.tool_calls)
            /\ Top.tool_calls[Top.idx].name \notin C21_Handlers(ver))
        => /\ Len(stack') = Len(stack)
           /\ Top'.results = Append(Top.results,
                 Entry(Top.tool_calls[Top.idx].name, Top.tool_calls[Top.idx].input,
                       "Unknown tool: " \o Top.tool_calls[Top.idx].name))
           /\ Top'.idx = Top.idx + 1
           /\ TODO' = TODO
           /\ files' = files
           /\ history' = history
           /\ result' = result]_vars

\* the message holds loaded skill content: the <skill-loaded> wrapper
C22_HasSkillContent(msg) ==
    \/ Contains(msg.text, "<skill-loaded")
    \/ \E j \in 1..Len(msg.entries) : Contains(msg.entries[j].output, "<skill-loaded")

\* C22: once the loop of main() has been entered, the history has one
\* system message, its first, and it is SYSTEM as inserted; every message
\* that holds loaded skill content is a user-role results message.
C22_SystemMessageStable ==
    /\ has_system(history) =>
         /\ history[1] = Msg("system", "system", SYSTEM(ver), <<>>)
         /\ \A i \in 2..Len(history) : history[i].role # "system"
    /\ \A i \in 1..Len(history) :
         C22_HasSkillContent(history[i]) =>
             history[i].role = "user" /\ history[i].kind = "results"

\* the second run of a session, after a step that loaded the skill
C22_Witness ==
    /\ ver = "v4"
    /\ inputs = 0
    /\ Running
    /\ \E i \in 2..Len(history) : C22_HasSkillContent(history[i])
    /\ Cardinality({i \in 1..Len(history) : history[i].kind = "input"}) = 2

\* the body of the skill pdf as its package gives it
C23_Body == "Use pdftotext."

\* the message holds the body of the skill
C23_BodyIn(msg) ==
    \/ Contains(msg.text, C23_Body)
    \/ \E j \in 1..Len(msg.entries) : Contains(msg.entries[j].output, C23_Body)

\* the results message of a step that dispatched Skill on pdf
C23_SkillStep(msg) ==
    /\ msg.kind = "results"
    /\ \E j \in 1..Len(msg.entries) :
         msg.entries[j].name = "Skill" /\ msg.entries[j].input.skill = "pdf"

\* C23 as stated: in v4 a message of the history holds the body of the skill
\* only if a step up to it dispatched a Skill call naming the skill.
C23_AsStated ==
    ver = "v4" =>
        \A i \in 1..Len(history) :
            C23_BodyIn(history[i]) => \E k \in 1..i : C23_SkillStep(history[k])

\* C23: in v4 the system message holds the line "- pdf: handle pdfs" and
\* not the body; a message that holds the body is a user-role results
\* message, and there the body is in the output of a Skill call naming the
\* skill or of a tool that read the skill's file (read_file, bash).
C23_BodyOnlyOnRequest ==
    ver = "v4" =>
        /\ has_system(history) =>
             /\ Contains(history[1].text, "- pdf: handle pdfs")
             /\ ~C23_BodyIn(history[1])
        /\ \A i \in 1..Len(history) :
             C23_BodyIn(history[i]) =>
                 /\ history[i].role = "user"
                 /\ history[i].kind = "results"
                 /\ \A j \in 1..Len(history[i].entries) :
                      Contains(history[i].entries[j].output, C23_Body) =>
                          \/ /\ history[i].entries[j].name = "Skill"
                             /\ history[i].entries[j].input.skill = "pdf"
                          \/ history[i].entries[j].name \in {"read_file", "bash"}

\* the summary from the start, the body from the step that asked for it
C23_Witness ==
    /\ ver = "v4"
    /\ Len(history) >= 4
    /\ Contains(history[1].text, "- pdf: handle pdfs")
    /\ \A i \in 1..3 : ~C23_BodyIn(history[i])
    /\ C23_SkillStep(history[4])
    /\ C23_BodyIn(history[4])

\* C26: in v4 the dispatch of a Skill call naming a skill that is not
\* loaded appends "Error: Unknown skill '<name>'. Available: pdf" as the
\* result of the call; nothing is raised and the dispatch of the step goes
\* on.
C26_UnknownSkillIsAResult ==
    [][(Running /\ ver = "v4" /\ Top.pc = "dispatch"
            /\ Top.idx <= Len(Top.tool_calls)
            /\ Top.tool_calls[Top.idx].name = "Skill"
            /\ Top.tool_calls[Top.idx].input.kind = "dict"
            /\ "skill" \in Top.tool_calls[Top.idx].input.keys
            /\ Top.tool_calls[Top.idx].input.skill # "pdf")
        => /\ Len(stack') = Len(stack)
           /\ Top'.pc = "dispatch"
           /\ Top'.idx = Top.idx + 1
           /\ Top'.results = Append(Top.results,
                 Entry("Skill", Top.tool_calls[Top.idx].input,
                       "Error: Unknown skill '"
                           \o Top.tool_calls[Top.idx].input.skill
                           \o "'. Available: pdf"))
           /\ result' = result
           /\ history' = history]_vars

\* the error was the result of the first call and the second was dispatched
C26_Witness ==
    /\ ver = "v4"
    /\ Running
    /\ Len(Top.results) = 2
    /\ Top.results[1].output = "Error: Unknown skill 'xls'. Available: pdf"
    /\ Top.results[2].name = "Skill"
    /\ Contains(Top.results[2].output, "<skill-loaded name=\"pdf\">")

\* the loader has answered: the summaries (query "") or a skill by name
C24_Answered == skillLoad.phase = "answered"

\* the answer holds what the package gives
C24_RoundTrip(e) ==
    /\ skillLoad.query = "" => Contains(skillLoad.text, e.name \o ": " \o e.description)
    /\ skillLoad.query = e.name => Contains(skillLoad.text, e.body)

\* C24 as stated: for every package of the directory whose manifest declares
\* name N and description D and whose body is B, the summaries contain
\* "N: D" and the load of N contains B.
C24_AsStated ==
    C24_Answered => \A e \in entries_of(files) : e.ok => C24_RoundTrip(e)

\* C24: for every name N that packages of the directory declare, the
\* summaries contain "N: D" and the load of N contains B for D and B of one
\* package declaring N: of the only one when no other package declares N
\* (so for name pdf, description "handle pdfs", body "Use pdftotext.").
C24_RoundTripPerName ==
    C24_Answered =>
        \A e \in entries_of(files) : e.ok =>
            \E d \in entries_of(files) : d.ok /\ d.name = e.name /\ C24_RoundTrip(d)

\* the example, loaded next to a package with quoted values
C24_Witness ==
    /\ C24_Answered
    /\ Cardinality(entries_of(files)) = 2
    /\ \E e \in entries_of(files) : e.dir = "xls"
    /\ skillLoad.query = "pdf"
    /\ Contains(skillLoad.text, "Use pdftotext.")
    /\ get_descriptions(skillLoad.skills) = "- pdf: handle pdfs\n- xls: sheets: read"

\* C25: an entry of the skills directory whose manifest lacks name or
\* description, or has no metadata header, or that has no manifest, or that
\* is a file, is skipped: the loader holds no skill of it, the summaries
\* have no line for it and the load of its name gives the unknown-skill
\* error; every well-formed package of the directory is registered under
\* its name.
C25_MalformedSkipped ==
    skillLoad.phase \in {"loaded", "answered"} =>
        /\ \A e \in entries_of(files) : ~e.ok =>
             /\ \A i \in 1..Len(skillLoad.skills) :
                  skillLoad.skills[i].dir # Append(SKILLS_DIR, e.dir)
             /\ (C24_Answered /\ skillLoad.query = "") =>
                  ~Contains(skillLoad.text, "- " \o e.dir \o ":")
             /\ (C24_Answered /\ skillLoad.query = e.dir) =>
                  StartsWith(skillLoad.text,
                             "Error: Unknown skill '" \o e.dir \o "'. Available: ")
        /\ \A e \in entries_of(files) : e.ok =>
             \E i \in 1..Len(skillLoad.skills) : skillLoad.skills[i].name = e.name

\* a package without description next to the example: the load of the first
\* is not found and the second is listed
C25_Witness ==
    /\ C24_Answered
    /\ {e.dir : e \in entries_of(files)} = {"nodesc", "pdf"}
    /\ skillLoad.query = "nodesc"
    /\ skillLoad.text = "Error: Unknown skill 'nodesc'. Available: pdf"

\* C27: the dispatch, in a subagent of type explore or plan, of a call
\* whose name is not bash or read_file runs no handler: the files and the
\* Todo list stay as they were, no loop is started, and the result of the
\* call is not what write_file gives.
C27_ReadOnlyAgents ==
    [][(Len(stack) >= 2 /\ Top.agent_type \in {"explore", "plan"}
            /\ Top.pc = "dispatch" /\ Top.idx <= Len(Top.tool_calls)
            /\ Top.tool_calls[Top.idx].name \notin {"bash", "read_file"})
        => /\ files' = files
           /\ TODO' = TODO
           /\ Len(stack') <= Len(stack)
           /\ Len(stack') = Len(stack) =>
                ~StartsWith(Last(Top'.results).output, "Wrote ")]_vars

\* C28: whenever a loop calls the model, the messages handed to the model
\* are all the messages of its history, in order, the first of them the
\* system message.
C28_WholeHistorySent ==
    calls_model =>
        /\ Len(langchain_messages) = Len(loop_messages)
        /\ \A i \in 1..Len(loop_messages) :
             /\ langchain_messages[i].content.text = loop_messages[i].text
             /\ langchain_messages[i].content.entries = loop_messages[i].entries
             /\ langchain_messages[i].type = "system" <=> loop_messages[i].role = "system"
        /\ langchain_messages[1].type = "system"

\* C29: in the Response chat_with_tools returns, no text block comes after
\* a tool_use block.
C29_TextBeforeToolUse ==
    C17_Returned =>
        \A i, j \in 1..Len(last_response.content) :
            (i < j /\ last_response.content[i].type = "tool_use")
                => last_response.content[j].type # "text"

\* the payload is a list taken for legacy tool calls
C30_IsLegacy(raw) ==
    /\ raw.success
    /\ raw.json.shape = "list"
    /\ Len(raw.json.calls) > 0
    /\ raw.json.calls[1].has \cap {"function", "type"} # {}

\* C30: a payload that is neither an object with a tool_calls list nor a
\* list whose first element has a function or type key gives the single
\* text block of the payload and stop_reason end_turn; a list whose first
\* element has a function or type key gives one tool_use block per element
\* and stop_reason tool_use.
C30_OpaqueTextOrLegacy ==
    (C17_Returned /\ raw_reply.success) =>
        /\ ~C17_IsToolCalls(raw_reply) =>
             /\ last_response.content = <<TextBlock(raw_reply.content)>>
             /\ last_response.stop_reason = "end_turn"
        /\ C30_IsLegacy(raw_reply) =>
             /\ last_response.stop_reason = "tool_use"
             /\ Len(last_response.content) = Len(raw_reply.json.calls)
             /\ \A i \in 1..Len(last_response.content) :
                  last_response.content[i].type = "tool_use"

\* C31: every results message of the history comes right after an assistant
\* message whose content is not empty.
C31_AssistantBeforeResults ==
    \A i \in 1..Len(history) :
        history[i].kind \in {"results", "error"} =>
            /\ i > 1
            /\ history[i - 1].role = "assistant"
            /\ history[i - 1].text # ""

\* the item update stores for a submitted item
C32_Stored(item) ==
    [content |-> C9_content(item), status |-> lower(C9_status(item)),
     activeForm |-> C9_activeForm(item)]

\* C32 (amended): after a replace call that succeeds the stored list holds,
\* in the submitted order, one item per submitted item: its content and
\* activeForm stripped and its status in lower case (pending when it has
\* none); no item of the previous list survives; a replace of the empty list
\* succeeds, stores the empty list and returns "No todos.".
C32_ReplacesWholeList ==
    [][(todoCall.active /\ ~todoCall'.active)
            => /\ ~todoCall'.raised =>
                    TODO' = [i \in 1..Len(todoCall.items) |-> C32_Stored(todoCall.items[i])]
               /\ todoCall.items = <<>> =>
                    (~todoCall'.raised /\ TODO' = <<>> /\ todoCall'.text = "No todos.")]_vars

\* a list of two items was stored, the content of the first stripped and
\* the status of the second put in lower case
C32_Witness ==
    /\ ~todoCall.active
    /\ ~todoCall.raised
    /\ Len(TODO) = 2
    /\ TODO[1].content = "b"
    /\ TODO[2].status = "completed"
    /\ todoCall.text = "[>] b <- doing b\n[x] c\n\n(1/2 completed)"

\* C32 as stated: after a replace call that succeeds the stored list equals
\* the submitted items in the submitted order; a replace of the empty list
\* succeeds, stores the empty list and returns "No todos.".
C32_AsStated ==
    [][(todoCall.active /\ ~todoCall'.active)
            => /\ ~todoCall'.raised =>
                    /\ Len(TODO') = Len(todoCall.items)
                    /\ \A i \in 1..Len(TODO') :
                         /\ TODO'[i].content = item_get(todoCall.items[i], "content", "")
                         /\ "status" \in todoCall.items[i].has
                         /\ TODO'[i].status = todoCall.items[i].status
                         /\ TODO'[i].activeForm = item_get(todoCall.items[i], "activeForm", "")
               /\ todoCall.items = <<>> =>
                    (~todoCall'.raised /\ TODO' = <<>> /\ todoCall'.text = "No todos.")]_vars

\* C33: the Todo list changes only in the dispatch of a TodoWrite call that
\* returns no error; every other step of a session leaves it as it was.
C33_TodoOnlyByTodoWrite ==
    [][TODO' # TODO =>
          /\ Running
          /\ Top.pc = "dispatch"
          /\ Top.idx <= Len(Top.tool_calls)
          /\ Top.tool_calls[Top.idx].name = "TodoWrite"
          /\ Len(stack') = Len(stack)
          /\ Len(Top'.results) = Len(Top.results) + 1
          /\ ~IsError(Last(Top'.results).output)]_vars

\* a run starts on the list a previous run of the session has stored
C33_Witness ==
    /\ Running
    /\ Len(stack) = 1
    /\ Top.pc = "start"
    /\ Len(history) > 2
    /\ TODO = <<[content |-> "a", status |-> "in_progress", activeForm |-> "doing a"]>>

\* C34: a loop makes a model call only when it is the running loop and
\* every tool call of its previous step has been dispatched and has
\* returned; a loop that waits for a Task dispatch does nothing until the
\* nested loop ends, and then records the result of that dispatch.
C34_StrictlySequential ==
    [][\A i \in 1..Len(stack) : i <= Len(stack') =>
          /\ stack'[i].calls # stack[i].calls =>
               /\ i = Len(stack)
               /\ stack'[i].calls = stack[i].calls + 1
               /\ stack[i].pc = "loop"
               /\ stack[i].idx > Len(stack[i].tool_calls)
               /\ Len(stack') <= Len(stack)
          /\ (i < Len(stack) /\ i < Len(stack')) => stack'[i] = stack[i]
          /\ (i < Len(stack) /\ i = Len(stack')) =>
               /\ i = Len(stack) - 1
               /\ stack'[i] = record_output(stack[i], Last(stack'[i].results).output)]_vars

\* a nested loop dispatches the tool call of its second step while the loop
\* that spawned it waits in its first
C34_Witness ==
    /\ Len(stack) = 2
    /\ stack[1].pc = "dispatch"
    /\ stack[1].step = 1
    /\ stack[1].tool_calls[stack[1].idx].name = "Task"
    /\ Top.step = 2
    /\ Top.pc = "dispatch"
    /\ Top.idx = 2

\* the tool call about to be dispatched is edit_file on a.txt
C35_EditCall ==
    /\ Running
    /\ ver # "v0"
    /\ Top.pc = "dispatch"
    /\ Top.idx <= Len(Top.tool_calls)
    /\ Top.tool_calls[Top.idx].name = "edit_file"

\* old occurs in s at position i and nowhere before i
C35_FirstAt(s, old, i) ==
    /\ SubSeq(s, i, i + Len(old) - 1) = old
    /\ \A k \in 1..(i - 1) : SubSeq(s, k, k + Len(old) - 1) # old

\* C35: edit_file on a file in which old_text does not occur gives an error
\* and leaves the file unchanged; otherwise the file afterwards is the file
\* before with the first occurrence of old_text replaced by new_text and the
\* rest, later occurrences included, as it was.
C35_EditsFirstOccurrence ==
    [][C35_EditCall =>
          LET a == <<"work", "a.txt">>
              old == Top.tool_calls[Top.idx].input.old_text
              new == Top.tool_calls[Top.idx].input.new_text
              c == files[a]
              places == {i \in 1..(Len(c) - Len(old) + 1) : C35_FirstAt(c, old, i)}
          IN  /\ \A q \in DOMAIN files \ {a} : files'[q] = files[q]
              /\ DOMAIN files' = DOMAIN files
              /\ IF places = {}
                 THEN /\ files'[a] = c
                      /\ IsError(Last(Top'.results).output)
                 ELSE /\ Last(Top'.results).output = "Edited a.txt"
                      /\ \E i \in places :
                           files'[a] = SubSeq(c, 1, i - 1) \o new
                                           \o SubSeq(c, i + Len(old), Len(c))]_vars

\* the first of the two line ends of a.txt was replaced, the second kept
C35_Witness ==
    /\ Running
    /\ Len(Top.results) = 1
    /\ Top.results[1].name = "edit_file"
    /\ Top.results[1].output = "Edited a.txt"
    /\ files[<<"work", "a.txt">>] = "x-y\nz"

\* the tool call about to be dispatched is read_file on a.txt with a limit
C36_ReadCall ==
    /\ Running
    /\ ver # "v0"
    /\ Top.pc = "dispatch"
    /\ Top.idx <= Len(Top.tool_calls)
    /\ Top.tool_calls[Top.idx].name = "read_file"
    /\ "limit" \in Top.tool_calls[Top.idx].input.keys

\* C36: read_file with a limit on a file of n lines returns the whole file
\* when limit >= n, and otherwise the first limit lines of the file (none
\* for a limit of zero or less) followed by the marker
\* "... (n - limit more lines)".
C36_LimitedRead ==
    [][C36_ReadCall =>
          LET limit == Top.tool_calls[Top.idx].input.limit
              lines == splitlines(files[<<"work", "a.txt">>], "")
              n == Len(lines)
              kept == IF limit < 0 THEN 0 ELSE limit
          IN  Last(Top'.results).output =
                IF limit >= n THEN join(lines)
                ELSE join(Append(SubSeq(lines, 1, kept),
                                 "... (" \o ToString(n - limit) \o " more lines)"))]_vars

\* C37: the Response chat_with_tools returns has stop_reason tool_use
\* exactly when it holds at least one tool_use block.
C37_ToolUseIffBlocks ==
    C17_Returned =>
        (last_response.stop_reason = "tool_use"
            <=> \E i \in 1..Len(last_response.content) :
                    last_response.content[i].type = "tool_use")

\* C38: after the system message no two adjacent messages of the history
\* have the same role.
C38_RolesAlternate ==
    \A i \in 1..(Len(history) - 1) :
        history[i].role # "system" => history[i].role # history[i + 1].role

\* what chat_with_tools is to return for the failed call of the stub
C39_ErrorResponse == Response(<<TextBlock("Error: connection refused")>>, "end_turn")

\* C39: a failed model call gives the Response of one text block
\* "Error: ..." with stop_reason end_turn; the loop that made the call ends
\* on that step without another call or a tool dispatch: the loop of main()
\* appends the error text as assistant message and returns, raising
\* nothing; a subagent's loop returns the error text to the dispatch that
\* spawned it.
C39_FailedCallEndsRun ==
    /\ chat_with_tools(ReplyFailure("connection refused")) = C39_ErrorResponse
    /\ [][(Running /\ Top.pc = "loop" /\ loop_continues(Top.step, max_steps)
               /\ \/ last_response' = C39_ErrorResponse
                  \/ last_response' = chat_with_tools(ReplyFailure("connection refused")))
            => IF Len(stack) = 1
               THEN /\ stack' = <<>>
                    /\ result'.kind \in {"text", "history"}
                    /\ result'.how = "final_turn"
                    /\ result'.calls = Top.calls + 1
                    /\ history' = Append(history,
                                         AssistantMsg("Error: connection refused"))
                    /\ ver = "v0" => result'.text = "Error: connection refused"
               ELSE /\ Len(stack') = Len(stack) - 1
                    /\ Top' = record_output(stack[Len(stack) - 1],
                                            "Error: connection refused")
                    /\ history' = history]_vars

\* the call of the second step failed after a step with tool calls, and the
\* run has ended with the error text as its last message
C39_Witness ==
    /\ ~Running
    /\ result.kind = "history"
    /\ result.calls = 2
    /\ Len(history) = 5
    /\ Last(history) = AssistantMsg("Error: connection refused")

\* run_task returns from its loop: on the turn that has no tool call, or
\* on the failed loop condition
C40_SubagentReturns ==
    /\ Len(stack) >= 2
    /\ Top.fn = "run_task"
    /\ Top.pc = "loop"
    /\ Len(stack') = Len(stack) - 1

\* the value of a turn: its texts joined, or the placeholder when it has no
\* text block
C40_ValueOf(response) ==
    IF \E i \in 1..Len(response.content) : response.content[i].type = "text"
    THEN join(texts_of(response.content))
    ELSE "(subagent returned no text)"

\* C40: a subagent that completes returns the value of the turn it just
\* made, which has no tool call; one whose budget is used up returns the
\* value of the last turn it made, which asked for tools; the value is the
\* joined text of that turn, or "(subagent returned no text)" when the turn
\* has no text block, and never the step-limit message; it goes to the
\* dispatch of the parent's Task call and nowhere else.
C40_ReturnsTextOfLastTurn ==
    [][C40_SubagentReturns =>
        /\ IF loop_continues(Top.step, max_steps)
           THEN /\ tool_calls_of(last_response'.content) = <<>>
                /\ Last(Top'.results).output = C40_ValueOf(last_response')
           ELSE /\ Top.step = max_steps
                /\ Top.step >= 1
                /\ tool_calls_of(Top.response.content) # <<>>
                /\ Last(Top'.results).output = C40_ValueOf(Top.response)
                /\ last_response' = last_response
        /\ Last(Top'.results).output # STEP_LIMIT_MESSAGE
        /\ Last(Top'.results).name = "Task"
        /\ Top' = record_output(stack[Len(stack) - 1], Last(Top'.results).output)
        /\ history' = history
        /\ result' = result]_vars

\* a subagent whose budget ran out on a turn with text and tool calls has
\* returned that text to the main loop
C40_Witness ==
    /\ Len(stack) = 1
    /\ Top.pc = "dispatch"
    /\ Top.results # <<>>
    /\ Last(Top.results).name = "Task"
    /\ Last(Top.results).output = "running"
    /\ last_response.stop_reason = "tool_use"
    /\ tool_calls_of(last_response.content) # <<>>

====
